---- MODULE Spec2Model ----
(***************************************************************************)
(* A model of termineditor.c: the row buffer (chars / render / capacity),  *)
(* the document operations (insert, delete, split, join, load, serialise), *)
(* the cursor and viewport, and the main loop that alternates              *)
(* editorRefreshScreen and editorProcessKeypress.                          *)
(*                                                                         *)
(* Bytes are their integer codes.  Row and column indices are 0-based as   *)
(* in the C source; TLA+ sequences are 1-based, so row cy of the document  *)
(* is E.rows[cy + 1] and chars[j] of the source is chars[j + 1] here.      *)
(***************************************************************************)
EXTENDS Integers, Sequences, FiniteSets, TLC

\* ------------------------------------------------------------------------
\* Program constants
\* ------------------------------------------------------------------------
TAB_SIZE == 4

ARROW_LEFT == 1000
ARROW_RIGHT == 1001
ARROW_UP == 1002
ARROW_DOWN == 1003
DEL_KEY == 1004
HOME_KEY == 1005
END_KEY == 1006
PAGE_UP == 1007
PAGE_DOWN == 1008

\* CTRL_KEY(k) is k & 0x1F
CTRL_F == 6
CTRL_H == 8
CTRL_P == 16
CTRL_Q == 17
CTRL_S == 19
BACKSPACE == 127
ESCAPE == 27

\* bytes
TAB == 9
LF == 10
CR == 13
SPACE == 32
LETTER == 97
HASH == 35
STAR == 42
PLUS == 43
MINUS == 45
UNDERSCORE == 95
BACKQUOTE == 96

\* E.filename values: NULL, DEFAULT_FILENAME, argv[1]
NoName == "NULL"
DEFAULT_FILENAME == "untitled.md"
WELCOME_MESSAGE ==
    "Terminal Markdown Editor - ^S Save | ^Q Quit | ^X Cut | ^C Copy | ^V Paste | ^F Find"
\* the seconds a status message stays on the message bar
StatusMsgSeconds == 5
ArgName == "file.md"

\* ------------------------------------------------------------------------
\* Bounds of the model
\* ------------------------------------------------------------------------
\* most bytes editorRowsToString may yield for a document built by keys (every
\* row costs its bytes and its line feed)
MaxDoc == 4
\* sizeof(linebuf) in editorOpen: 1000 in the source, scaled down so that a
\* physical line that fills the buffer is within reach
MAX_LINE_LENGTH == 4
\* longest row the row-level specification starts from
MaxRowLen == 3

\* the most bytes editorRowsToString may give for a document built key by key
\* in the run that keeps the last key
MaxStepDoc == 3
\* the longest row of the run that draws rows as markdown
MaxMdLen == 4
\* the longest row of the run that draws header rows
MaxHdrLen == 8
\* the longest row of the run that draws horizontal rules
MaxRuleLen == 5
\* the longest row and the largest buffer of the run that renders into
\* small buffers
MaxBufRow == 4
MaxBuf == 8
\* the most rows of the run that applies editorInsertRow on its own
MaxInsRows == 3
\* the seconds the clock of the message-bar run may reach
MaxTime == 6

\* bytes that reach editorInsertChar (the default case of the key switch)
InsertKeys == {LETTER, TAB, LF}
\* console sizes <<rows, cols>> getWindowSize reports; two of the rows hold the
\* status bar and the message bar
Windows == {<<2, 1>>, <<4, 2>>}
\* getWindowSize returning -1
NoWindow == <<0, 0>>

\* now: what time(NULL) returns, in seconds since the program started
VARIABLES E, quit_times, pc, mutated, hist, scen, now

vars == <<E, quit_times, pc, mutated, hist, scen, now>>

\* ------------------------------------------------------------------------
\* Rows
\* ------------------------------------------------------------------------
RECURSIVE PadToTabStop(_)
PadToTabStop(render) ==
    IF Len(render) % TAB_SIZE # 0
    THEN PadToTabStop(Append(render, SPACE))
    ELSE render

\* the render loop of editorUpdateRow from chars[j] on, render built so far
RECURSIVE RenderLoop(_, _, _, _)
RenderLoop(chars, size, j, render) ==
    IF j >= size THEN render
    ELSE IF chars[j + 1] = TAB
         THEN RenderLoop(chars, size, j + 1, PadToTabStop(Append(render, SPACE)))
         ELSE RenderLoop(chars, size, j + 1, Append(render, chars[j + 1]))

\* a faulty editorUpdateRow: every tab becomes TAB_SIZE spaces, whatever the column
editorUpdateRow_FixedTab(row) ==
    LET Expand[j \in 0 .. row.size] ==
            IF j = 0 THEN <<>>
            ELSE IF row.chars[j] = TAB
                 THEN Expand[j - 1] \o [i \in 1 .. TAB_SIZE |-> SPACE]
                 ELSE Append(Expand[j - 1], row.chars[j])
    IN  [row EXCEPT !.render = Expand[row.size], !.rsize = Len(Expand[row.size])]

editorUpdateRow(row) ==
    LET render == RenderLoop(row.chars, row.size, 0, <<>>)
    IN  [row EXCEPT !.render = render, !.rsize = Len(render)]

RECURSIVE CxToRxLoop(_, _, _, _)
CxToRxLoop(chars, cx, j, rx) ==
    IF j >= cx THEN rx
    ELSE IF chars[j + 1] = TAB
         THEN CxToRxLoop(chars, cx, j + 1, rx + (TAB_SIZE - 1) - (rx % TAB_SIZE) + 1)
         ELSE CxToRxLoop(chars, cx, j + 1, rx + 1)

\* a faulty editorRowCxToRx: a tab always advances rx by TAB_SIZE
editorRowCxToRx_FixedTab(row, cx) ==
    LET Rx[j \in 0 .. cx] ==
            IF j = 0 THEN 0
            ELSE IF row.chars[j] = TAB THEN Rx[j - 1] + TAB_SIZE ELSE Rx[j - 1] + 1
    IN  Rx[cx]

editorRowCxToRx(row, cx) ==
    CxToRxLoop(row.chars, cx, 0, 0)

\* a row as editorAppendRow and editorInsertRow build it from s
NewRow(s) ==
    editorUpdateRow([chars |-> s, size |-> Len(s), capacity |-> Len(s) + 1,
                     render |-> <<>>, rsize |-> 0])

editorAppendRow(e, s) ==
    [e EXCEPT !.rows = Append(e.rows, NewRow(s)),
              !.numrows = e.numrows + 1,
              !.dirty = 1]

editorDelRow(e, at) ==
    IF at < 0 \/ at >= e.numrows THEN e
    ELSE [e EXCEPT !.rows = SubSeq(e.rows, 1, at) \o SubSeq(e.rows, at + 2, e.numrows),
                   !.numrows = e.numrows - 1,
                   !.dirty = 1]

editorRowInsertChar(e, r, at0, c) ==
    LET row == e.rows[r + 1]
        at == IF at0 < 0 \/ at0 > row.size THEN row.size ELSE at0
        cap == IF row.size + 2 > row.capacity
               THEN (IF row.capacity * 2 = 0 THEN 4 ELSE row.capacity * 2)
               ELSE row.capacity
        chars == SubSeq(row.chars, 1, at) \o <<c>> \o SubSeq(row.chars, at + 1, row.size)
    IN  [e EXCEPT !.rows[r + 1] = editorUpdateRow([row EXCEPT !.chars = chars,
                                                            !.size = row.size + 1,
                                                            !.capacity = cap]),
                  !.dirty = 1]

RECURSIVE GrowCapacity(_, _)
GrowCapacity(capacity, need) ==
    IF capacity < need THEN GrowCapacity(capacity * 2, need) ELSE capacity

\* a faulty editorRowAppendString: it grows the row only when the new size
\* is above the capacity, leaving no room for the terminator
editorRowAppendString_NoTerminator(e, r, s) ==
    LET row == e.rows[r + 1]
        new_size == row.size + Len(s)
        cap == IF new_size > row.capacity
               THEN GrowCapacity(row.capacity, new_size)
               ELSE row.capacity
    IN  [e EXCEPT !.rows[r + 1] = editorUpdateRow([row EXCEPT !.chars = row.chars \o s,
                                                            !.size = new_size,
                                                            !.capacity = cap]),
                  !.dirty = 1]

editorRowAppendString(e, r, s) ==
    LET row == e.rows[r + 1]
        new_size == row.size + Len(s)
        cap == IF new_size >= row.capacity
               THEN GrowCapacity(row.capacity, new_size + 1)
               ELSE row.capacity
    IN  [e EXCEPT !.rows[r + 1] = editorUpdateRow([row EXCEPT !.chars = row.chars \o s,
                                                            !.size = new_size,
                                                            !.capacity = cap]),
                  !.dirty = 1]

\* a faulty editorRowDelChar: the range check is off by one and refuses to delete
\* the last byte of the row
editorRowDelChar_OffByOne(e, r, at) ==
    LET row == e.rows[r + 1]
    IN  IF at < 0 \/ at >= row.size - 1 THEN e
        ELSE [e EXCEPT !.rows[r + 1] =
                           editorUpdateRow([row EXCEPT
                               !.chars = SubSeq(row.chars, 1, at)
                                         \o SubSeq(row.chars, at + 2, row.size),
                               !.size = row.size - 1]),
                       !.dirty = 1]

editorRowDelChar(e, r, at) ==
    LET row == e.rows[r + 1]
    IN  IF at < 0 \/ at >= row.size THEN e
        ELSE [e EXCEPT !.rows[r + 1] =
                           editorUpdateRow([row EXCEPT
                               !.chars = SubSeq(row.chars, 1, at)
                                         \o SubSeq(row.chars, at + 2, row.size),
                               !.size = row.size - 1]),
                       !.dirty = 1]

\* ------------------------------------------------------------------------
\* Editor operations
\* ------------------------------------------------------------------------
\* msg is the format string of the call: the %d and %s values it prints (the byte
\* count, the file name, strerror) are left out of the message text
editorSetStatusMessage(e, msg) ==
    [e EXCEPT !.statusmsg = msg, !.statusmsg_time = now]

editorInsertChar(e, c) ==
    LET e1 == IF e.cy = e.numrows THEN editorAppendRow(e, <<>>) ELSE e
        e2 == editorRowInsertChar(e1, e1.cy, e1.cx, c)
    IN  [e2 EXCEPT !.cx = e2.cx + 1]

editorInsertRow(e, at, s) ==
    IF at < 0 \/ at > e.numrows THEN e
    ELSE [e EXCEPT !.rows = SubSeq(e.rows, 1, at) \o <<NewRow(s)>>
                            \o SubSeq(e.rows, at + 1, e.numrows),
                   !.numrows = e.numrows + 1,
                   !.dirty = 1]

\* a faulty editorInsertNewline: the left part of a split row keeps its old render
editorInsertNewline_StaleRender(e) ==
    LET e2 == IF e.cx = 0
              THEN editorInsertRow(e, e.cy, <<>>)
              ELSE LET row == e.rows[e.cy + 1]
                       e1 == editorInsertRow(e, e.cy + 1,
                                             SubSeq(row.chars, e.cx + 1, row.size))
                       left == e1.rows[e.cy + 1]
                   IN  [e1 EXCEPT !.rows[e.cy + 1] =
                           [left EXCEPT !.size = e.cx,
                                        !.chars = SubSeq(left.chars, 1, e.cx)]]
    IN  [e2 EXCEPT !.cy = e.cy + 1, !.cx = 0]

editorInsertNewline(e) ==
    LET e2 == IF e.cx = 0
              THEN editorInsertRow(e, e.cy, <<>>)
              ELSE LET row == e.rows[e.cy + 1]
                       e1 == editorInsertRow(e, e.cy + 1,
                                             SubSeq(row.chars, e.cx + 1, row.size))
                       left == e1.rows[e.cy + 1]
                   IN  [e1 EXCEPT !.rows[e.cy + 1] =
                           editorUpdateRow([left EXCEPT
                               !.size = e.cx,
                               !.chars = SubSeq(left.chars, 1, e.cx)])]
    IN  [e2 EXCEPT !.cy = e.cy + 1, !.cx = 0]

\* a faulty editorDelChar: dirty is set before the cursor is looked at
editorDelChar_DirtyFirst(e) ==
    IF e.cy = e.numrows \/ (e.cx = 0 /\ e.cy = 0) THEN [e EXCEPT !.dirty = 1]
    ELSE IF e.cx > 0
         THEN LET e1 == editorRowDelChar(e, e.cy, e.cx - 1)
              IN  [e1 EXCEPT !.cx = e.cx - 1]
         ELSE LET row == e.rows[e.cy + 1]
                  e1 == [e EXCEPT !.cx = e.rows[e.cy].size]
                  e2 == editorRowAppendString(e1, e.cy - 1, SubSeq(row.chars, 1, row.size))
                  e3 == editorDelRow(e2, e.cy)
              IN  [e3 EXCEPT !.cy = e.cy - 1]

editorDelChar(e) ==
    IF e.cy = e.numrows THEN e
    ELSE IF e.cx = 0 /\ e.cy = 0 THEN e
    ELSE IF e.cx > 0
         THEN LET e1 == editorRowDelChar(e, e.cy, e.cx - 1)
              IN  [e1 EXCEPT !.cx = e.cx - 1]
         ELSE LET row == e.rows[e.cy + 1]
                  e1 == [e EXCEPT !.cx = e.rows[e.cy].size]
                  e2 == editorRowAppendString(e1, e.cy - 1, SubSeq(row.chars, 1, row.size))
                  e3 == editorDelRow(e2, e.cy)
              IN  [e3 EXCEPT !.cy = e.cy - 1]

\* ------------------------------------------------------------------------
\* File I/O
\* ------------------------------------------------------------------------
RECURSIVE RowsToStringLoop(_, _, _)
RowsToStringLoop(e, j, buf) ==
    IF j >= e.numrows THEN buf
    ELSE RowsToStringLoop(e, j + 1,
             buf \o SubSeq(e.rows[j + 1].chars, 1, e.rows[j + 1].size) \o <<LF>>)

editorRowsToString(e) ==
    RowsToStringLoop(e, 0, <<>>)

\* fgets(linebuf, sizeof(linebuf), fp): <<the bytes stored, the bytes left in fp>>
RECURSIVE fgets(_, _)
fgets(fp, linebuf) ==
    IF fp = <<>> \/ Len(linebuf) = MAX_LINE_LENGTH - 1 THEN <<linebuf, fp>>
    ELSE IF Head(fp) = LF THEN <<Append(linebuf, LF), Tail(fp)>>
    ELSE fgets(Tail(fp), Append(linebuf, Head(fp)))

\* while ((c = fgetc(fp)) != EOF && c != '\n');
RECURSIVE DiscardRestOfLine(_)
DiscardRestOfLine(fp) ==
    IF fp = <<>> THEN fp
    ELSE IF Head(fp) = LF THEN Tail(fp)
    ELSE DiscardRestOfLine(Tail(fp))

RECURSIVE StripLineEnd(_, _)
StripLineEnd(linebuf, linelen) ==
    IF linelen > 0 /\ (linebuf[linelen] = LF \/ linebuf[linelen] = CR)
    THEN StripLineEnd(linebuf, linelen - 1)
    ELSE linelen

\* the while loop of editorOpen over the bytes fp still holds
RECURSIVE OpenLoop(_, _)
OpenLoop(e, fp) ==
    IF fp = <<>> THEN e
    ELSE LET got == fgets(fp, <<>>)
             linebuf == got[1]
             linelen == Len(linebuf)
             cut == linelen = MAX_LINE_LENGTH - 1 /\ linebuf[linelen] # LF
             rest == IF cut THEN DiscardRestOfLine(got[2]) ELSE got[2]
             e1 == IF cut
                   THEN editorSetStatusMessage(e, "Warning: Line truncated (too long)")
                   ELSE e
             e2 == editorAppendRow(e1, SubSeq(linebuf, 1, StripLineEnd(linebuf, linelen)))
         IN  OpenLoop(e2, rest)

\* the contents fopen finds under a name that does not exist
NoFile == <<-1>>

editorOpen(e, filename, file) ==
    LET e1 == [e EXCEPT !.filename = filename]
    IN  IF file = NoFile
        THEN editorSetStatusMessage(e1, "New file")
        ELSE [OpenLoop(e1, file) EXCEPT !.dirty = 0]

\* a faulty editorSave: dirty is cleared before the write is known to succeed
editorSave_ClearsDirtyFirst(e, io) ==
    LET e1 == IF e.filename = NoName
              THEN editorSetStatusMessage([e EXCEPT !.filename = DEFAULT_FILENAME],
                                          "Saving as")
              ELSE e
        e2 == [e1 EXCEPT !.dirty = 0]
    IN  IF io
        THEN editorSetStatusMessage(e2, "bytes written to disk")
        ELSE editorSetStatusMessage(e2, "Can't save! I/O error")

\* io: fopen and fwrite both succeed
editorSave(e, io) ==
    LET e1 == IF e.filename = NoName
              THEN editorSetStatusMessage([e EXCEPT !.filename = DEFAULT_FILENAME],
                                          "Saving as")
              ELSE e
        buf == editorRowsToString(e1)
    IN  IF io
        THEN editorSetStatusMessage([e1 EXCEPT !.dirty = 0], "bytes written to disk")
        ELSE editorSetStatusMessage(e1, "Can't save! I/O error")

\* ------------------------------------------------------------------------
\* Output
\* ------------------------------------------------------------------------
\* a faulty editorScroll: the window never follows the cursor to the right
editorScroll_NoRightClamp(e) ==
    LET rx == IF e.cy < e.numrows THEN editorRowCxToRx(e.rows[e.cy + 1], e.cx) ELSE 0
        rowoff1 == IF e.cy < e.rowoff THEN e.cy ELSE e.rowoff
        rowoff2 == IF e.cy >= rowoff1 + e.screenrows
                   THEN e.cy - e.screenrows + 1 ELSE rowoff1
        coloff1 == IF rx < e.coloff THEN rx ELSE e.coloff
    IN  [e EXCEPT !.rx = rx, !.rowoff = rowoff2, !.coloff = coloff1]

editorScroll(e) ==
    LET rx == IF e.cy < e.numrows THEN editorRowCxToRx(e.rows[e.cy + 1], e.cx) ELSE 0
        rowoff1 == IF e.cy < e.rowoff THEN e.cy ELSE e.rowoff
        rowoff2 == IF e.cy >= rowoff1 + e.screenrows
                   THEN e.cy - e.screenrows + 1 ELSE rowoff1
        coloff1 == IF rx < e.coloff THEN rx ELSE e.coloff
        coloff2 == IF rx >= coloff1 + e.screencols
                   THEN rx - e.screencols + 1 ELSE coloff1
    IN  [e EXCEPT !.rx = rx, !.rowoff = rowoff2, !.coloff = coloff2]

\* win: what getWindowSize reports for this frame
editorRefreshScreen(e, win) ==
    LET e1 == IF win # NoWindow
              THEN [e EXCEPT !.screenrows = win[1] - 2, !.screencols = win[2]]
              ELSE e
        e2 == IF e1.numrows = 0
              THEN [e1 EXCEPT !.cy = 0, !.cx = 0]
              ELSE LET e3 == IF e1.cy >= e1.numrows
                             THEN [e1 EXCEPT !.cy = e1.numrows - 1,
                                             !.cx = e1.rows[e1.numrows].size]
                             ELSE e1
                       rowlen == e3.rows[e3.cy + 1].size
                   IN  IF e3.cx > rowlen THEN [e3 EXCEPT !.cx = rowlen] ELSE e3
    IN  editorScroll(e2)

\* the text editorDrawMessageBar appends after the clear-line sequence: the
\* message line of the frame drawn from e
editorDrawMessageBar(e) ==
    LET len == Len(e.statusmsg)
        msglen == IF len > e.screencols THEN e.screencols ELSE len
        shown == IF msglen # 0 /\ now - e.statusmsg_time < StatusMsgSeconds
                 THEN SubSeq(e.statusmsg, 1, msglen) ELSE ""
    IN  IF e.statusmsg = "" THEN shown \o WELCOME_MESSAGE ELSE shown

\* ------------------------------------------------------------------------
\* Input
\* ------------------------------------------------------------------------
\* a faulty editorMoveCursor: cx is not adjusted to the length of the new row
editorMoveCursor_NoSnap(e, key) ==
    LET hasRow == ~(e.cy >= e.numrows \/ e.cy < 0)
    IN  CASE key = ARROW_LEFT ->
                 IF e.cx > 0 THEN [e EXCEPT !.cx = e.cx - 1]
                 ELSE IF e.cy > 0
                      THEN [e EXCEPT !.cy = e.cy - 1,
                                     !.cx = IF e.cy - 1 < e.numrows
                                            THEN e.rows[e.cy].size ELSE 0]
                      ELSE e
          [] key = ARROW_DOWN ->
                 IF e.cy < e.numrows - 1 THEN [e EXCEPT !.cy = e.cy + 1] ELSE e
          [] key = ARROW_UP ->
                 IF e.cy > 0 THEN [e EXCEPT !.cy = e.cy - 1] ELSE e
          [] key = ARROW_RIGHT ->
                 IF hasRow /\ e.cx < e.rows[e.cy + 1].size
                 THEN [e EXCEPT !.cx = e.cx + 1]
                 ELSE IF hasRow /\ e.cx = e.rows[e.cy + 1].size
                         /\ e.cy < e.numrows - 1
                      THEN [e EXCEPT !.cy = e.cy + 1, !.cx = 0]
                      ELSE e
          [] OTHER -> e

editorMoveCursor(e, key) ==
    LET hasRow == ~(e.cy >= e.numrows \/ e.cy < 0)
        e1 == CASE key = ARROW_LEFT ->
                       IF e.cx > 0 THEN [e EXCEPT !.cx = e.cx - 1]
                       ELSE IF e.cy > 0
                            THEN [e EXCEPT !.cy = e.cy - 1,
                                           !.cx = IF e.cy - 1 < e.numrows
                                                  THEN e.rows[e.cy].size ELSE 0]
                            ELSE e
                [] key = ARROW_DOWN ->
                       IF e.cy < e.numrows - 1 THEN [e EXCEPT !.cy = e.cy + 1] ELSE e
                [] key = ARROW_UP ->
                       IF e.cy > 0 THEN [e EXCEPT !.cy = e.cy - 1] ELSE e
                [] key = ARROW_RIGHT ->
                       IF hasRow /\ e.cx < e.rows[e.cy + 1].size
                       THEN [e EXCEPT !.cx = e.cx + 1]
                       ELSE IF hasRow /\ e.cx = e.rows[e.cy + 1].size
                               /\ e.cy < e.numrows - 1
                            THEN [e EXCEPT !.cy = e.cy + 1, !.cx = 0]
                            ELSE e
                [] OTHER -> e
        rowlen == IF e1.cy >= e1.numrows \/ e1.cy < 0 THEN 0 ELSE e1.rows[e1.cy + 1].size
    IN  IF e1.cx > rowlen THEN [e1 EXCEPT !.cx = rowlen] ELSE e1

\* while (times--) editorMoveCursor(key);
RECURSIVE MoveTimes(_, _, _)
MoveTimes(e, key, times) ==
    IF times = 0 THEN e ELSE MoveTimes(editorMoveCursor(e, key), key, times - 1)

PreviewModeName(mode) ==
    IF mode = 0 THEN "Preview mode: edit only"
    ELSE IF mode = 1 THEN "Preview mode: split view"
    ELSE "Preview mode: preview only"

TogglePreview(e) ==
    LET mode == (e.preview_mode + 1) % 3
    IN  editorSetStatusMessage([e EXCEPT !.preview_mode = mode], PreviewModeName(mode))

QuitWarning(qt) ==
    IF qt = 2
    THEN "WARNING! File has unsaved changes. Press Ctrl-Q 2 more times to quit."
    ELSE "WARNING! File has unsaved changes. Press Ctrl-Q 1 more times to quit."

\* what one call leaves: the editor, the static quit_times, and whether exit(0) ran
Result(e, qt, exited) ==
    [E |-> e, quit_times |-> qt, exited |-> exited]

\* case CTRL_KEY('q'), the same in both switches
QuitKey(e, qt) ==
    IF e.dirty # 0 /\ qt > 0
    THEN Result(editorSetStatusMessage(e, QuitWarning(qt)), qt - 1, FALSE)
    ELSE Result(e, qt, TRUE)

\* a faulty editorProcessKeypress: the restricted switch is entered in split view
\* (mode 1) instead of preview-only mode (mode 2)
editorProcessKeypress_WrongMode(e, qt, c, io) ==
    IF e.preview_mode = 1
    THEN CASE c = CTRL_Q -> QuitKey(e, qt)
           [] c = CTRL_P -> Result(TogglePreview(e), 2, FALSE)
           [] c \in {ARROW_UP, ARROW_DOWN, PAGE_UP, PAGE_DOWN} ->
                  Result(editorMoveCursor(e, c), 2, FALSE)
           [] OTHER -> Result(e, qt, FALSE)
    ELSE CASE c = CR -> Result(editorInsertNewline(e), 2, FALSE)
           [] c = CTRL_Q -> QuitKey(e, qt)
           [] c = CTRL_S -> Result(editorSave(e, io), 2, FALSE)
           [] c = CTRL_P -> Result(TogglePreview(e), 2, FALSE)
           [] c \in {BACKSPACE, CTRL_H} -> Result(editorDelChar(e), 2, FALSE)
           [] c = CTRL_F ->
                  Result(editorSetStatusMessage(e, "Search function not implemented yet"),
                         2, FALSE)
           [] c \in {ARROW_LEFT, ARROW_RIGHT, ARROW_UP, ARROW_DOWN} ->
                  Result(editorMoveCursor(e, c), 2, FALSE)
           [] c = HOME_KEY -> Result([e EXCEPT !.cx = 0], 2, FALSE)
           [] c = END_KEY ->
                  Result(IF e.cy < e.numrows
                         THEN [e EXCEPT !.cx = e.rows[e.cy + 1].size] ELSE e,
                         2, FALSE)
           [] c = PAGE_UP ->
                  Result(MoveTimes([e EXCEPT !.cy = e.rowoff], ARROW_UP, e.screenrows),
                         2, FALSE)
           [] c = PAGE_DOWN ->
                  LET cy1 == e.rowoff + e.screenrows - 1
                      cy2 == IF cy1 > e.numrows THEN e.numrows ELSE cy1
                  IN  Result(MoveTimes([e EXCEPT !.cy = cy2], ARROW_DOWN, e.screenrows),
                             2, FALSE)
           [] c = DEL_KEY ->
                  Result(editorDelChar(editorMoveCursor(e, ARROW_RIGHT)), 2, FALSE)
           [] c = ESCAPE -> Result(e, 2, FALSE)
           [] OTHER -> Result(editorInsertChar(e, c), 2, FALSE)

\* c: the key editorReadKey returns; io: whether a save's fopen and fwrite succeed
editorProcessKeypress(e, qt, c, io) ==
    IF e.preview_mode = 2
    THEN CASE c = CTRL_Q -> QuitKey(e, qt)
           [] c = CTRL_P -> Result(TogglePreview(e), 2, FALSE)
           [] c \in {ARROW_UP, ARROW_DOWN, PAGE_UP, PAGE_DOWN} ->
                  Result(editorMoveCursor(e, c), 2, FALSE)
           [] OTHER -> Result(e, qt, FALSE)
    ELSE CASE c = CR -> Result(editorInsertNewline(e), 2, FALSE)
           [] c = CTRL_Q -> QuitKey(e, qt)
           [] c = CTRL_S -> Result(editorSave(e, io), 2, FALSE)
           [] c = CTRL_P -> Result(TogglePreview(e), 2, FALSE)
           [] c \in {BACKSPACE, CTRL_H} -> Result(editorDelChar(e), 2, FALSE)
           [] c = CTRL_F ->
                  Result(editorSetStatusMessage(e, "Search function not implemented yet"),
                         2, FALSE)
           [] c \in {ARROW_LEFT, ARROW_RIGHT, ARROW_UP, ARROW_DOWN} ->
                  Result(editorMoveCursor(e, c), 2, FALSE)
           [] c = HOME_KEY -> Result([e EXCEPT !.cx = 0], 2, FALSE)
           [] c = END_KEY ->
                  Result(IF e.cy < e.numrows
                         THEN [e EXCEPT !.cx = e.rows[e.cy + 1].size] ELSE e,
                         2, FALSE)
           [] c = PAGE_UP ->
                  Result(MoveTimes([e EXCEPT !.cy = e.rowoff], ARROW_UP, e.screenrows),
                         2, FALSE)
           [] c = PAGE_DOWN ->
                  LET cy1 == e.rowoff + e.screenrows - 1
                      cy2 == IF cy1 > e.numrows THEN e.numrows ELSE cy1
                  IN  Result(MoveTimes([e EXCEPT !.cy = cy2], ARROW_DOWN, e.screenrows),
                             2, FALSE)
           [] c = DEL_KEY ->
                  Result(editorDelChar(editorMoveCursor(e, ARROW_RIGHT)), 2, FALSE)
           [] c = ESCAPE -> Result(e, 2, FALSE)
           [] OTHER -> Result(editorInsertChar(e, c), 2, FALSE)

\* ------------------------------------------------------------------------
\* Init
\* ------------------------------------------------------------------------
\* win: what getWindowSize reports to editorInit
editorInit(win) ==
    [cx |-> 0, cy |-> 0, rx |-> 0, rowoff |-> 0, coloff |-> 0,
     screenrows |-> win[1] - 2, screencols |-> win[2],
     numrows |-> 0, rows |-> <<>>, filename |-> NoName,
     statusmsg |-> "", statusmsg_time |-> 0, dirty |-> 0, preview_mode |-> 0]

\* the files argv[1] may name, as the bytes fgets delivers
Files ==
    { <<>>,
      <<LETTER, LF>>,
      <<LETTER, CR, LF, TAB>> }

\* argc < 2: no file is named
NoArg == <<-2>>

\* main up to its loop; file is what argv[1] names

main(win, file) ==
    LET e0 == editorInit(win)
        e1 == IF file # NoArg THEN editorOpen(e0, ArgName, file) ELSE e0
    IN  editorSetStatusMessage(e1,
            "HELP: Ctrl-S = save | Ctrl-Q = quit | Ctrl-P = preview mode")

\* ------------------------------------------------------------------------
\* The main loop
\* ------------------------------------------------------------------------
\* the keys editorReadKey returns
Keys ==
    InsertKeys \cup {CR, BACKSPACE, ESCAPE, CTRL_F, CTRL_H, CTRL_P, CTRL_Q, CTRL_S}
    \cup (ARROW_LEFT .. PAGE_DOWN)

\* the keys that edit the document, move the cursor or change the preview mode
EditKeys ==
    {LETTER, TAB, CR, BACKSPACE, CTRL_H, CTRL_P, ESCAPE} \cup (ARROW_LEFT .. PAGE_DOWN)

\* the keys of a run that types bytes, among them a line feed (Ctrl-J)
ByteKeys ==
    {LETTER, LF, CR, BACKSPACE, ARROW_LEFT, ARROW_UP}

\* the keys of a run that edits and saves
FileKeys ==
    {LETTER, CR, BACKSPACE, DEL_KEY, HOME_KEY, ARROW_LEFT, CTRL_S}

\* the document: every row's bytes, in order
Contents(e) ==
    [j \in 1 .. e.numrows |-> SubSeq(e.rows[j].chars, 1, e.rows[j].size)]

\* the bound of the model: a key may not grow the document past MaxDoc
WithinBounds(e, e1) ==
    \/ Len(editorRowsToString(e1)) <= MaxDoc
    \/ Len(editorRowsToString(e1)) <= Len(editorRowsToString(e))

\* history of the last keys, kept for the properties: stage 1 after Enter in an
\* editing mode (rows, cx, cy are those before it), stage 2 after Enter, Backspace
NoHist ==
    [stage |-> 0, rows |-> <<>>, cx |-> 0, cy |-> 0]

HistAfter(e, h, c) ==
    IF e.preview_mode # 2 /\ c = CR
    THEN [stage |-> 1, rows |-> Contents(e), cx |-> e.cx, cy |-> e.cy]
    ELSE IF e.preview_mode # 2 /\ c = BACKSPACE /\ h.stage = 1
    THEN [h EXCEPT !.stage = 2]
    ELSE NoHist

\* the run so far is: empty document, the bytes s typed, then (nl) Enter and the
\* bytes t typed
ScenOff ==
    [on |-> FALSE, nl |-> FALSE, s |-> <<>>, t |-> <<>>]

ScenAfter(e, sc, c) ==
    IF ~sc.on \/ e.preview_mode = 2 THEN ScenOff
    ELSE IF c \in InsertKeys
    THEN IF sc.nl THEN [sc EXCEPT !.t = Append(sc.t, c)]
                  ELSE [sc EXCEPT !.s = Append(sc.s, c)]
    ELSE IF c = CR /\ ~sc.nl THEN [sc EXCEPT !.nl = TRUE]
    ELSE ScenOff

InitWith(windows, files) ==
    \E win \in windows, file \in files :
        /\ now = 0
        /\ E = main(win, file)
        /\ quit_times = 2
        /\ pc = "refresh"
        /\ mutated = FALSE
        /\ hist = NoHist
        /\ scen = [ScenOff EXCEPT !.on = (file \in {NoFile, NoArg, <<>>})]

Init ==
    InitWith(Windows, Files \cup {NoFile})

RefreshIn(windows) ==
    /\ pc = "refresh"
    /\ \E win \in windows : E' = editorRefreshScreen(E, win)
    /\ pc' = "keypress"
    /\ UNCHANGED <<quit_times, mutated, hist, scen, now>>

Keypress(c) ==
    /\ pc = "keypress"
    /\ \E io \in (IF c = CTRL_S THEN BOOLEAN ELSE {TRUE}) :
           LET r == editorProcessKeypress(E, quit_times, c, io)
           IN  /\ WithinBounds(E, r.E)
               /\ E' = r.E
               /\ quit_times' = r.quit_times
               /\ pc' = IF r.exited THEN "exited" ELSE "refresh"
               /\ mutated' = IF Contents(r.E) # Contents(E) THEN TRUE
                             ELSE IF c = CTRL_S /\ E.preview_mode # 2 /\ io THEN FALSE
                             ELSE mutated
               /\ hist' = HistAfter(E, hist, c)
               /\ scen' = ScenAfter(E, scen, c)
               /\ UNCHANGED now

Refresh ==
    RefreshIn(Windows \cup {NoWindow})

Next ==
    \/ Refresh
    \/ \E c \in EditKeys : Keypress(c)

Spec == Init /\ [][Next]_vars

\* a run that types bytes, among them a line feed
InitBytes ==
    InitWith(Windows, Files \cup {NoFile})

NextBytes ==
    \/ Refresh
    \/ \E c \in ByteKeys : Keypress(c)

SpecBytes == InitBytes /\ [][NextBytes]_vars

\* a run that edits and saves, started with or without a file argument
InitFile ==
    InitWith({<<4, 2>>}, Files \cup {NoFile, NoArg})

RefreshPlain ==
    RefreshIn({<<4, 2>>})

NextFile ==
    \/ RefreshPlain
    \/ \E c \in FileKeys : Keypress(c)

SpecFile == InitFile /\ [][NextFile]_vars

\* ------------------------------------------------------------------------
\* The row functions on their own: one row, the functions applied to it
\* ------------------------------------------------------------------------
RECURSIVE SeqsUpTo(_, _)
SeqsUpTo(S, n) ==
    IF n = 0 THEN {<<>>}
    ELSE LET shorter == SeqsUpTo(S, n - 1)
         IN  shorter \cup {Append(q, x) : q \in shorter, x \in S}

\* what the row history keeps of a row
RowView(row) ==
    [chars |-> SubSeq(row.chars, 1, row.size), size |-> row.size,
     render |-> row.render, rsize |-> row.rsize]

InitRow ==
    \E s \in SeqsUpTo({LETTER, TAB}, MaxRowLen) :
        /\ now = 0
        /\ E = editorAppendRow(editorInit(<<24, 80>>), s)
        /\ quit_times = 2
        /\ pc = "row"
        /\ mutated = FALSE
        /\ hist = NoHist
        /\ scen = ScenOff

\* editorRowInsertChar(&E.rows[0], at, c); the history keeps the row before it
RowInsertChar(at, c) ==
    /\ pc = "row"
    /\ E.rows[1].size <= MaxRowLen
    /\ E' = editorRowInsertChar(E, 0, at, c)
    /\ hist' = [stage |-> 1, rows |-> <<RowView(E.rows[1])>>, cx |-> at, cy |-> 0]
    /\ UNCHANGED <<quit_times, pc, mutated, scen, now>>

\* editorRowDelChar(&E.rows[0], at); stage 2 when it follows an insertion at at
RowDelChar(at) ==
    /\ pc = "row"
    /\ E' = editorRowDelChar(E, 0, at)
    /\ hist' = IF hist.stage = 1 /\ hist.cx = at THEN [hist EXCEPT !.stage = 2]
               ELSE NoHist
    /\ UNCHANGED <<quit_times, pc, mutated, scen, now>>

\* editorRowAppendString(&E.rows[0], s, len)
RowAppendString(s) ==
    /\ pc = "row"
    /\ E.rows[1].size + Len(s) <= MaxRowLen + 1
    /\ E' = editorRowAppendString(E, 0, s)
    /\ hist' = NoHist
    /\ UNCHANGED <<quit_times, pc, mutated, scen, now>>

\* the cursor put at column cx of the row, then editorScroll (which sets E.rx);
\* the history is at stage 3 right after it
RowScroll(cx) ==
    /\ pc = "row"
    /\ cx <= E.rows[1].size
    /\ E' = editorScroll([E EXCEPT !.cx = cx])
    /\ hist' = [NoHist EXCEPT !.stage = 3]
    /\ UNCHANGED <<quit_times, pc, mutated, scen, now>>

NextRow ==
    \/ \E at \in -1 .. MaxRowLen + 2, c \in {LETTER, TAB} : RowInsertChar(at, c)
    \/ \E at \in -1 .. MaxRowLen + 2 : RowDelChar(at)
    \/ \E s \in SeqsUpTo({LETTER, TAB}, 2) : RowAppendString(s)
    \/ \E cx \in 0 .. MaxRowLen + 1 : RowScroll(cx)

SpecRow == InitRow /\ [][NextRow]_vars

\* ------------------------------------------------------------------------
\* One key at a time: the history keeps the key just processed
\* ------------------------------------------------------------------------
\* the keys of a run in which every case of both switches is taken
StepKeys ==
    {LETTER, CR, BACKSPACE, ESCAPE, CTRL_F, CTRL_P, CTRL_Q, CTRL_S}
    \cup (ARROW_LEFT .. PAGE_DOWN)

InitKeys ==
    InitWith({<<6, 4>>}, {<<LETTER, LF, LF>>})

\* a frame in a console with room for the whole document
RefreshRoomy ==
    RefreshIn({<<6, 4>>})

\* editorProcessKeypress for the key c; stage 4: hist.key is the key just
\* processed, hist.io whether a save could write
KeyStep(c) ==
    /\ pc = "keypress"
    /\ \E io \in (IF c = CTRL_S THEN BOOLEAN ELSE {TRUE}) :
           LET r == editorProcessKeypress(E, quit_times, c, io)
           IN  /\ \/ Len(editorRowsToString(r.E)) <= MaxStepDoc
                  \/ Len(editorRowsToString(r.E)) <= Len(editorRowsToString(E))
               /\ E' = r.E
               /\ quit_times' = r.quit_times
               /\ pc' = IF r.exited THEN "exited" ELSE "refresh"
               /\ hist' = [stage |-> 4, key |-> c, io |-> io]
               /\ UNCHANGED <<mutated, scen, now>>

NextKeys ==
    \/ RefreshRoomy
    \/ \E c \in StepKeys : KeyStep(c)

SpecKeys == InitKeys /\ [][NextKeys]_vars

\* ------------------------------------------------------------------------
\* Loading: the file argv[1] names ranges over short byte strings, some with a
\* physical line that does not fit linebuf
\* ------------------------------------------------------------------------
LoadFiles ==
    SeqsUpTo({LETTER, LF}, MAX_LINE_LENGTH + 1)

\* the keys of a run that only looks at the loaded document
LoadKeys ==
    {ARROW_DOWN, ARROW_RIGHT, END_KEY}

\* stage 5: no key has been read yet, hist.file is the file that was loaded
InitLoad ==
    \E file \in LoadFiles :
        /\ now = 0
        /\ E = main(<<4, 2>>, file)
        /\ quit_times = 2
        /\ pc = "refresh"
        /\ mutated = FALSE
        /\ hist = [stage |-> 5, file |-> file]
        /\ scen = ScenOff

NextLoad ==
    \/ RefreshPlain
    \/ \E c \in LoadKeys : Keypress(c)

SpecLoad == InitLoad /\ [][NextLoad]_vars

\* ------------------------------------------------------------------------
\* The message bar: time passes while editorReadKey waits for a key
\* ------------------------------------------------------------------------
\* the keys of a run that sets messages and draws frames
MsgKeys ==
    {ARROW_DOWN, CTRL_F, CTRL_P}

InitMsg ==
    InitWith({<<4, 2>>}, {NoArg, <<LETTER, LF>>})

\* a second passes
Tick ==
    /\ pc = "keypress"
    /\ now < MaxTime
    /\ now' = now + 1
    /\ UNCHANGED <<E, quit_times, pc, mutated, hist, scen>>

NextMsg ==
    \/ RefreshPlain
    \/ Tick
    \/ \E c \in MsgKeys : KeyStep(c)

SpecMsg == InitMsg /\ [][NextMsg]_vars

\* ------------------------------------------------------------------------
\* editorInsertRow and editorDelRow on their own, at any index
\* ------------------------------------------------------------------------
RowTexts ==
    {<<>>, <<LETTER>>, <<TAB>>}

InitRows ==
    /\ now = 0
    /\ E = editorInit(<<24, 80>>)
    /\ quit_times = 2
    /\ pc = "rows"
    /\ mutated = FALSE
    /\ hist = NoHist
    /\ scen = ScenOff

\* editorInsertRow(at, s, len); stage 7: hist.before is E as the call found it
InsertRow(at, s) ==
    /\ pc = "rows"
    /\ E.numrows < MaxInsRows
    /\ E' = editorInsertRow(E, at, s)
    /\ hist' = [stage |-> 7, at |-> at, s |-> s, before |-> E]
    /\ UNCHANGED <<quit_times, pc, mutated, scen, now>>

\* editorDelRow(at)
DelRow(at) ==
    /\ pc = "rows"
    /\ E' = editorDelRow(E, at)
    /\ hist' = NoHist
    /\ UNCHANGED <<quit_times, pc, mutated, scen, now>>

NextRows ==
    \/ \E at \in -2 .. MaxInsRows + 1, s \in RowTexts : InsertRow(at, s)
    \/ \E at \in -1 .. MaxInsRows : DelRow(at)

SpecRows == InitRows /\ [][NextRows]_vars

\* ------------------------------------------------------------------------
\* Markdown preview
\* ------------------------------------------------------------------------
\* line[i] of a NUL-terminated string, i counted from 0
CharAt(line, i) ==
    IF i < Len(line) THEN line[i + 1] ELSE 0

RECURSIVE SkipWhile(_, _, _)
\* while (S contains line[i]) i++;
SkipWhile(line, i, S) ==
    IF CharAt(line, i) \in S THEN SkipWhile(line, i + 1, S) ELSE i

isHeaderLine(line) ==
    LET i == SkipWhile(line, 0, {HASH})
    IN  IF i > 0 /\ CharAt(line, i) \in {SPACE, TAB} THEN i ELSE 0

isListItem(line) ==
    LET i == SkipWhile(line, 0, {SPACE, TAB})
    IN  /\ CharAt(line, i) \in {MINUS, STAR, PLUS}
        /\ CharAt(line, i + 1) \in {SPACE, TAB}

isCodeBlock(line) ==
    /\ CharAt(line, 0) = BACKQUOTE
    /\ CharAt(line, 1) = BACKQUOTE
    /\ CharAt(line, 2) = BACKQUOTE

RECURSIVE RuleLoop(_, _, _, _)
\* the counting loop of isHorizontalRule: <<i, count>> when it stops
RuleLoop(line, i, c, count) ==
    IF CharAt(line, i) \in {c, SPACE, TAB}
    THEN RuleLoop(line, i + 1, c, IF CharAt(line, i) = c THEN count + 1 ELSE count)
    ELSE <<i, count>>

isHorizontalRule(line) ==
    LET i == SkipWhile(line, 0, {SPACE, TAB})
    IN  IF CharAt(line, i) \notin {MINUS, STAR, UNDERSCORE} THEN FALSE
        ELSE LET r == RuleLoop(line, i, CharAt(line, i), 0)
             IN  r[2] >= 3 /\ CharAt(line, r[1]) = 0

\* the escape sequences renderMarkdown writes: ESC "[0m", "[1m", "[3m", "[36m"
SGR_RESET ==
    <<ESCAPE, 91, 48, 109>>

SGR_BOLD ==
    <<ESCAPE, 91, 49, 109>>

SGR_ITALIC ==
    <<ESCAPE, 91, 51, 109>>

SGR_CYAN ==
    <<ESCAPE, 91, 51, 54, 109>>

\* ESC "[%d;1m" with fontSize, one digit
SGR_HEADER(fontSize) ==
    <<ESCAPE, 91, 48 + fontSize, 59, 49, 109>>

\* sizeof(rendered) in editorDrawRows: MAX_LINE_LENGTH * 3 with the source's
\* MAX_LINE_LENGTH of 1000, ample for the rows of SpecMd
RenderedSize == 3000

\* What snprintf does when its size argument is above INT_MAX, as
\* buffer_size - pos is once converted to size_t from a negative int: a C
\* library either stores the bytes all the same or fails and returns -1.
Libcs ==
    {"stores", "fails"}

\* The buffer as renderMarkdown fills it: buf the bytes stored in bounds, pos
\* the write index, oob whether a byte was stored outside [0, buffer_size),
\* ub whether snprintf was called with a negative size, libc the C library.
EmptyBuffer(libc) ==
    [buf |-> <<>>, pos |-> 0, oob |-> FALSE, ub |-> FALSE, libc |-> libc]

\* buffer[pos++] = c;
PutByte(st, buffer_size, c) ==
    IF st.pos >= buffer_size
    THEN [st EXCEPT !.pos = st.pos + 1, !.oob = TRUE]
    ELSE [st EXCEPT !.buf = SubSeq(st.buf, 1, st.pos) \o <<c>>, !.pos = st.pos + 1]

\* pos += snprintf(&buffer[pos], buffer_size - pos, "%s", bytes): at most
\* buffer_size - pos - 1 bytes are stored, the whole length is added to pos; a
\* negative size converts to a huge size_t, and either the bytes and their NUL
\* go past the buffer or the call fails with -1
Snprintf(st, buffer_size, bytes) ==
    LET n == buffer_size - st.pos
        k == IF Len(bytes) < n - 1 THEN Len(bytes) ELSE n - 1
    IN  IF n < 0
        THEN IF st.libc = "stores"
             THEN [st EXCEPT !.pos = st.pos + Len(bytes), !.oob = TRUE, !.ub = TRUE]
             ELSE [st EXCEPT !.pos = st.pos - 1, !.ub = TRUE]
        ELSE IF n = 0 THEN [st EXCEPT !.pos = st.pos + Len(bytes)]
        ELSE [st EXCEPT !.buf = SubSeq(st.buf, 1, st.pos) \o SubSeq(bytes, 1, k),
                        !.pos = st.pos + Len(bytes)]

RECURSIVE PutWhile(_, _, _, _, _)
\* for (i = 0; i < n && pos < limit; i++) buffer[pos++] = c;
PutWhile(st, buffer_size, c, n, limit) ==
    IF n > 0 /\ st.pos < limit
    THEN PutWhile(PutByte(st, buffer_size, c), buffer_size, c, n - 1, limit)
    ELSE st

RECURSIVE PadLoop(_, _)
\* while ((pos % TAB_SIZE) != 0 && pos < buffer_size - 1) buffer[pos++] = ' ';
PadLoop(st, buffer_size) ==
    IF st.pos % TAB_SIZE # 0 /\ st.pos < buffer_size - 1
    THEN PadLoop(PutByte(st, buffer_size, SPACE), buffer_size)
    ELSE st

\* a tab of the row: one space, then spaces up to the tab stop
PutTab(st, buffer_size) ==
    PadLoop(PutByte(st, buffer_size, SPACE), buffer_size)

\* the toggle of one inline style: its escape when off, the reset when on
ToggleStyle(st, buffer_size, on, style) ==
    Snprintf(st, buffer_size, IF on THEN SGR_RESET ELSE style)

\* r after the inline loop has advanced the buffer to st: marks keeps, for
\* every byte stored meanwhile, the states <<in_bold, in_italic, in_code>>
\* open at that point
Stored(r, st) ==
    [r EXCEPT !.st = st,
              !.marks = r.marks \o [k \in 1 .. Len(st.buf) - Len(r.st.buf) |->
                                       <<r.in_bold, r.in_italic, r.in_code>>]]

RECURSIVE InlineLoop(_, _, _, _)
\* the scan for **bold**, *italic* and `code` from chars[i] on;
\* r = [st, in_bold, in_italic, in_code, marks]
InlineLoop(chars, i, buffer_size, r) ==
    IF ~(i < Len(chars) /\ r.st.pos < buffer_size - 2) THEN r
    ELSE IF CharAt(chars, i) = TAB
    THEN InlineLoop(chars, i + 1, buffer_size, Stored(r, PutTab(r.st, buffer_size)))
    ELSE IF CharAt(chars, i) = STAR /\ i + 1 < Len(chars) /\ CharAt(chars, i + 1) = STAR
    THEN InlineLoop(chars, i + 2, buffer_size,
                    [Stored(r, ToggleStyle(r.st, buffer_size, r.in_bold, SGR_BOLD))
                        EXCEPT !.in_bold = ~r.in_bold])
    ELSE IF CharAt(chars, i) = STAR
    THEN InlineLoop(chars, i + 1, buffer_size,
                    [Stored(r, ToggleStyle(r.st, buffer_size, r.in_italic, SGR_ITALIC))
                        EXCEPT !.in_italic = ~r.in_italic])
    ELSE IF CharAt(chars, i) = BACKQUOTE
    THEN InlineLoop(chars, i + 1, buffer_size,
                    [Stored(r, ToggleStyle(r.st, buffer_size, r.in_code, SGR_CYAN))
                        EXCEPT !.in_code = ~r.in_code])
    ELSE InlineLoop(chars, i + 1, buffer_size,
                    Stored(r, IF r.st.pos < buffer_size - 2
                              THEN PutByte(r.st, buffer_size, CharAt(chars, i))
                              ELSE r.st))

InlineFrom(chars, i, buffer_size, st) ==
    InlineLoop(chars, i, buffer_size,
               [st |-> st, in_bold |-> FALSE, in_italic |-> FALSE, in_code |-> FALSE,
                marks |-> <<>>])

\* the header branch
RenderHeader(chars, headerLevel, buffer_size, libc) ==
    LET st1 == IF headerLevel >= 1 /\ headerLevel <= 6
               THEN Snprintf(EmptyBuffer(libc), buffer_size, SGR_HEADER(7 - headerLevel))
               ELSE EmptyBuffer(libc)
        st2 == PutWhile(st1, buffer_size, HASH, headerLevel, buffer_size - 2)
        st3 == IF st2.pos < buffer_size - 2 THEN PutByte(st2, buffer_size, SPACE) ELSE st2
        st4 == Snprintf(st3, buffer_size, SubSeq(chars, headerLevel + 2, Len(chars)))
    IN  Snprintf(st4, buffer_size, SGR_RESET)

RECURSIVE LeadingLoop(_, _, _, _)
\* the expansion of the spaces and tabs before the bullet: <<i, st>>
LeadingLoop(chars, i, buffer_size, st) ==
    IF CharAt(chars, i) = TAB
    THEN LeadingLoop(chars, i + 1, buffer_size, PutTab(st, buffer_size))
    ELSE IF CharAt(chars, i) = SPACE
    THEN LeadingLoop(chars, i + 1, buffer_size, PutByte(st, buffer_size, SPACE))
    ELSE <<i, st>>

\* the list item branch up to its inline loop: the index i the loop starts
\* at, the buffer st it starts with
ListItemStart(chars, buffer_size, libc) ==
    LET lead == LeadingLoop(chars, 0, buffer_size, EmptyBuffer(libc))
        i == lead[1]
        st1 == Snprintf(lead[2], buffer_size,
                        SGR_BOLD \o <<CharAt(chars, i)>> \o SGR_RESET)
    IN  [i |-> SkipWhile(chars, i + 1, {SPACE, TAB}), st |-> st1]

\* the list item branch
RenderListItem(chars, buffer_size, libc) ==
    LET start == ListItemStart(chars, buffer_size, libc)
    IN  InlineFrom(chars, start.i, buffer_size, start.st).st

\* the horizontal rule branch
RenderRule(width, buffer_size, libc) ==
    PutWhile(EmptyBuffer(libc), buffer_size, MINUS, width - 1, buffer_size - 2)

\* the fenced code branch
RenderFence(chars, buffer_size, libc) ==
    Snprintf(EmptyBuffer(libc), buffer_size,
             SGR_CYAN \o <<BACKQUOTE, BACKQUOTE, BACKQUOTE>>
                      \o SubSeq(chars, 4, Len(chars)) \o SGR_RESET)

\* the normal text branch
RenderNormal(chars, buffer_size, libc) ==
    LET r == InlineFrom(chars, 0, buffer_size, EmptyBuffer(libc))
    IN  IF (r.in_bold \/ r.in_italic \/ r.in_code) /\ r.st.pos < buffer_size - 5
        THEN Snprintf(r.st, buffer_size, SGR_RESET)
        ELSE r.st

\* the branch renderMarkdown takes for the line
Branch(chars) ==
    IF isHeaderLine(chars) # 0 THEN "header"
    ELSE IF isListItem(chars) THEN "list"
    ELSE IF isHorizontalRule(chars) THEN "rule"
    ELSE IF isCodeBlock(chars) THEN "fence"
    ELSE "normal"

\* The string renderMarkdown leaves in buffer (up to the terminating NUL),
\* the index nul of that NUL, whether it stored a byte outside the buffer, and
\* whether it called snprintf with a negative size.
renderMarkdown(row, width, buffer_size, libc) ==
    LET chars == SubSeq(row.chars, 1, row.size)
        headerLevel == isHeaderLine(chars)
        st == IF headerLevel # 0 THEN RenderHeader(chars, headerLevel, buffer_size, libc)
              ELSE IF isListItem(chars) THEN RenderListItem(chars, buffer_size, libc)
              ELSE IF isHorizontalRule(chars) THEN RenderRule(width, buffer_size, libc)
              ELSE IF isCodeBlock(chars) THEN RenderFence(chars, buffer_size, libc)
              ELSE RenderNormal(chars, buffer_size, libc)
        nul == IF st.pos < buffer_size THEN st.pos ELSE buffer_size - 1
        len == IF Len(st.buf) < nul THEN Len(st.buf) ELSE nul
    IN  [rendered |-> SubSeq(st.buf, 1, len), nul |-> nul, oob |-> st.oob, ub |-> st.ub]

\* the outcomes of renderMarkdown: one, or one for each C library if snprintf
\* was called with a negative size
RenderOutcomes(row, width, buffer_size) ==
    LET stores == renderMarkdown(row, width, buffer_size, "stores")
    IN  IF stores.ub
        THEN {renderMarkdown(row, width, buffer_size, libc) : libc \in Libcs}
        ELSE {stores}

\* what editorDrawRows renders of row filerow in the preview: the whole width
\* in preview-only mode, the right half in split mode
DrawPreviewRow(e, filerow) ==
    LET edit_width == IF e.preview_mode = 1 THEN e.screencols \div 2 ELSE e.screencols
        rest == e.screencols - edit_width - 1
        preview_width == IF rest < 1 THEN 1 ELSE rest
    IN  RenderOutcomes(e.rows[filerow + 1],
                       IF e.preview_mode = 2 THEN e.screencols ELSE preview_width,
                       RenderedSize)

\* the bytes the run types
MdBytes ==
    {LETTER, SPACE, TAB, HASH, STAR, MINUS, BACKQUOTE}

InitMd ==
    InitWith({<<4, 6>>}, {NoArg})

\* a key, then the frame: stage 8 keeps what the preview shows of row 0;
\* maxlen bounds the row
PreviewKey(c, maxlen) ==
    /\ pc = "keypress"
    /\ LET r == editorProcessKeypress(E, quit_times, c, TRUE)
           e == editorRefreshScreen(r.E, <<4, 6>>)
       IN  /\ IF e.numrows = 0 THEN TRUE ELSE e.rows[1].size <= maxlen
           /\ E' = e
           /\ quit_times' = r.quit_times
           /\ IF e.preview_mode # 0 /\ e.numrows > 0
              THEN \E frame \in DrawPreviewRow(e, 0) :
                       hist' = [stage |-> 8, frame |-> frame]
              ELSE hist' = NoHist
    /\ UNCHANGED <<pc, mutated, scen, now>>

MdKey(c) ==
    PreviewKey(c, MaxMdLen)

NextMd ==
    \/ RefreshIn({<<4, 6>>})
    \/ \E c \in MdBytes \cup {CTRL_P} : MdKey(c)

SpecMd == InitMd /\ [][NextMd]_vars

\* the same run over rows of '#', space and a letter, long enough for seven '#'
HdrBytes ==
    {HASH, SPACE, LETTER}

HdrKey(c) ==
    PreviewKey(c, MaxHdrLen)

NextHdr ==
    \/ RefreshIn({<<4, 6>>})
    \/ \E c \in HdrBytes \cup {CTRL_P} : HdrKey(c)

SpecHdr == InitMd /\ [][NextHdr]_vars

\* the same run over rows of the rule symbols, space and a letter
RuleBytes ==
    {MINUS, STAR, UNDERSCORE, SPACE, LETTER}

RuleKey(c) ==
    PreviewKey(c, MaxRuleLen)

NextRule ==
    \/ RefreshIn({<<4, 6>>})
    \/ \E c \in RuleBytes \cup {CTRL_P} : RuleKey(c)

SpecRule == InitMd /\ [][NextRule]_vars

\* renderMarkdown called on the typed row with small buffers
BufBytes ==
    {HASH, MINUS, BACKQUOTE, SPACE, LETTER}

\* a key in edit mode, then the frame
BufKey(c) ==
    /\ pc = "keypress"
    /\ LET r == editorProcessKeypress(E, quit_times, c, TRUE)
           e == editorRefreshScreen(r.E, <<4, 6>>)
       IN  /\ e.rows[1].size <= MaxBufRow
           /\ E' = e
           /\ quit_times' = r.quit_times
    /\ hist' = NoHist
    /\ UNCHANGED <<pc, mutated, scen, now>>

\* renderMarkdown(&E.rows[0], E.screencols, buffer, buffer_size); stage 9
\* keeps buffer_size and what the call did
RenderInto(buffer_size) ==
    /\ pc = "keypress"
    /\ E.numrows > 0
    /\ \E frame \in RenderOutcomes(E.rows[1], E.screencols, buffer_size) :
           hist' = [stage |-> 9, buffer_size |-> buffer_size, frame |-> frame]
    /\ UNCHANGED <<E, quit_times, pc, mutated, scen, now>>

NextBuf ==
    \/ RefreshIn({<<4, 6>>})
    \/ \E c \in BufBytes : BufKey(c)
    \/ \E buffer_size \in 1 .. MaxBuf : RenderInto(buffer_size)

SpecBuf == InitMd /\ [][NextBuf]_vars

\* ------------------------------------------------------------------------
\* Properties
\* ------------------------------------------------------------------------
\* the size of row cy, 0 for the virtual row cy = numrows
RowSizeAt(e, cy) ==
    IF cy >= 0 /\ cy < e.numrows THEN e.rows[cy + 1].size ELSE 0

\* seq with x put before its element of (0-based) index at
InsertAt(seq, at, x) ==
    SubSeq(seq, 1, at) \o <<x>> \o SubSeq(seq, at + 1, Len(seq))

\* C1: in every state of the main loop, right after editorProcessKeypress
\* returns as well as after editorRefreshScreen, 0 <= cy <= numrows and
\* 0 <= cx <= size of the row at cy (0 when cy = numrows).
C1_CursorInDocument ==
    /\ 0 <= E.cy /\ E.cy <= E.numrows
    /\ 0 <= E.cx /\ E.cx <= RowSizeAt(E, E.cy)

\* C2: whenever a frame is drawn (editorRefreshScreen has run editorScroll)
\* with screenrows >= 1 and screencols >= 1, the cursor's render position is
\* inside the window: rowoff <= cy < rowoff + screenrows and
\* coloff <= rx < coloff + screencols, with rowoff >= 0 and coloff >= 0.
C2_CursorInWindow ==
    (pc = "keypress" /\ E.screenrows >= 1 /\ E.screencols >= 1)
    => /\ 0 <= E.rowoff /\ E.rowoff <= E.cy /\ E.cy < E.rowoff + E.screenrows
       /\ 0 <= E.coloff /\ E.coloff <= E.rx /\ E.rx < E.coloff + E.screencols

\* a frame of a window with room for text, scrolled both down and right
C2_Witness ==
    /\ pc = "keypress" /\ E.screenrows >= 1 /\ E.screencols >= 1
    /\ E.rowoff > 0 /\ E.coloff > 0

\* the tab expansion of a byte string: a tab becomes the spaces that reach the
\* next multiple of TAB_SIZE, any other byte stays
RECURSIVE TabExpansion(_)
TabExpansion(s) ==
    IF s = <<>> THEN <<>>
    ELSE LET before == TabExpansion(SubSeq(s, 1, Len(s) - 1))
         IN  IF s[Len(s)] = TAB
             THEN before \o [i \in 1 .. TAB_SIZE - (Len(before) % TAB_SIZE) |-> SPACE]
             ELSE Append(before, s[Len(s)])

\* C3: in every state (after every completed mutating operation, and whenever
\* a frame is drawn) every row's render is the tab expansion of its chars and
\* rsize is the length of that expansion.
C3_RenderMatchesChars ==
    \A j \in 1 .. E.numrows :
        /\ Len(E.rows[j].chars) = E.rows[j].size
        /\ E.rows[j].render = TabExpansion(E.rows[j].chars)
        /\ E.rows[j].rsize = Len(E.rows[j].render)

\* Enter has just split a row whose left part ends in a tab
C3_Witness ==
    /\ hist.stage = 1 /\ hist.cx > 0
    /\ E.numrows = Len(hist.rows) + 1
    /\ E.rows[hist.cy + 1].chars[hist.cx] = TAB
    /\ E.rows[hist.cy + 2].size > 0

\* C5: when the next key is processed after Enter the cursor is at
\* (0, old cy + 1), an empty row was inserted above the current line if cx was
\* 0 and the row was split at cx otherwise; and typing s, Enter, t into an
\* empty document yields the rows <<s, t>> with the cursor on row 1 at column
\* Len(t).
C5_EnterAdvancesCursor ==
    /\ (pc = "keypress" /\ hist.stage = 1)
       => /\ E.cx = 0 /\ E.cy = hist.cy + 1
          /\ Contents(E) =
                 IF hist.cx = 0 THEN InsertAt(hist.rows, hist.cy, <<>>)
                 ELSE LET line == hist.rows[hist.cy + 1]
                      IN  SubSeq(hist.rows, 1, hist.cy)
                          \o <<SubSeq(line, 1, hist.cx),
                               SubSeq(line, hist.cx + 1, Len(line))>>
                          \o SubSeq(hist.rows, hist.cy + 2, Len(hist.rows))
    /\ (pc = "keypress" /\ scen.on /\ scen.nl)
       => /\ Contents(E) = <<scen.s, scen.t>>
          /\ E.cy = 1 /\ E.cx = Len(scen.t)

\* C6: in an editing mode, Enter and then immediately Backspace restore the
\* rows and the cursor (cx, cy) that were there before the Enter.
C6_EnterBackspaceRestores ==
    (pc = "keypress" /\ hist.stage = 2)
    => /\ Contents(E) = hist.rows
       /\ E.cx = hist.cx /\ E.cy = hist.cy

\* C4 (SpecFile): dirty is set exactly when the rows have changed since the
\* last successful load or save: every change of the rows sets it, a request
\* that changes nothing (Backspace at the start, Delete at the end, a failed
\* save) neither sets nor clears it, and only a successful save or the load
\* clears it.
C4_DirtyIffMutated ==
    (E.dirty # 0) <=> mutated

\* a save has just failed on a changed document
C4_Witness ==
    /\ mutated /\ E.dirty = 1
    /\ E.statusmsg = "Can't save! I/O error"

\* what a fresh editor holds after editorOpen reads the bytes editorRowsToString
\* makes of e
Reloaded(e) ==
    editorOpen(editorInit(<<4, 2>>), ArgName, editorRowsToString(e))

\* C7 (SpecBytes): serialising the document with editorRowsToString and
\* loading the bytes into a fresh editor with editorOpen yields the same
\* number of rows with the same bytes in each.
C7_SaveLoadRoundTrip ==
    /\ Reloaded(E).numrows = E.numrows
    /\ Contents(Reloaded(E)) = Contents(E)

C9_CxToRx ==
    LET row == E.rows[1]
        rx(cx) == editorRowCxToRx(row, cx)
    IN  /\ rx(0) = 0
        /\ rx(row.size) = row.rsize
        /\ \A cx \in 0 .. row.size - 1 : rx(cx) <= rx(cx + 1)
        /\ \A cx \in 0 .. row.size :
               /\ rx(cx) <= row.rsize
               /\ SubSeq(row.render, 1, rx(cx)) = TabExpansion(SubSeq(row.chars, 1, cx))
        /\ hist.stage = 3 => E.rx = rx(E.cx)

\* editorScroll has just computed rx = 4 for the cursor behind a letter and a tab
C9_Witness ==
    /\ hist.stage = 3 /\ E.cx = 2 /\ E.rx = 4
    /\ E.rows[1].size > 2
    /\ E.rows[1].chars[1] = LETTER /\ E.rows[1].chars[2] = TAB

\* the number of tabs among the first n bytes of chars
RECURSIVE Tabs(_, _)
Tabs(chars, n) ==
    IF n = 0 THEN 0
    ELSE Tabs(chars, n - 1) + (IF chars[n] = TAB THEN 1 ELSE 0)

\* C10 as the specification states it: rsize = size + tabs * (TAB_SIZE - 1).
C10_FixedTabWidth ==
    E.rows[1].rsize = E.rows[1].size + Tabs(E.rows[1].chars, E.rows[1].size) * (TAB_SIZE - 1)

\* C10 (SpecRow), amended: each tab is expanded with spaces up to the next
\* multiple of TAB_SIZE, so it adds between 0 and TAB_SIZE - 1 bytes to the
\* render: size <= rsize <= size + tabs * (TAB_SIZE - 1), and rsize reaches
\* size + tabs * (TAB_SIZE - 1) exactly when every tab starts at a render
\* column that is a multiple of TAB_SIZE.
C10_TabStops ==
    LET row == E.rows[1]
        tabs == Tabs(row.chars, row.size)
        TabAt == {j \in 1 .. row.size : row.chars[j] = TAB}
        start(j) == Len(TabExpansion(SubSeq(row.chars, 1, j - 1)))
        end(j) == Len(TabExpansion(SubSeq(row.chars, 1, j)))
    IN  /\ row.rsize = Len(row.render)
        /\ \A j \in TabAt :
               /\ end(j) > start(j) /\ end(j) <= start(j) + TAB_SIZE
               /\ end(j) % TAB_SIZE = 0 /\ end(j) <= row.rsize
               /\ \A i \in start(j) + 1 .. end(j) : row.render[i] = SPACE
        /\ row.size <= row.rsize
        /\ row.rsize <= row.size + tabs * (TAB_SIZE - 1)
        /\ (row.rsize = row.size + tabs * (TAB_SIZE - 1))
           <=> (\A j \in TabAt : start(j) % TAB_SIZE = 0)

\* a row whose tab starts at column 1 and so adds only two bytes
C10_Witness ==
    /\ E.rows[1].size = 2
    /\ E.rows[1].chars[1] = LETTER /\ E.rows[1].chars[2] = TAB
    /\ E.rows[1].rsize = 4

\* the editor editorProcessKeypress leaves when the key read is c (a save succeeds)
AfterKey(c) ==
    editorProcessKeypress(E, quit_times, c, TRUE).E

\* the smaller of two numbers
Min(a, b) ==
    IF a < b THEN a ELSE b

\* C11 (SpecKeys): whenever a key is about to be read, Left at column 0 of a
\* row cy > 0 gives (size of row cy - 1, cy - 1), Right at the end of a row
\* that is not the last gives (0, cy + 1), Up and Down move one row without
\* wrapping and stay on the first and the last row, and after Up or Down cx
\* is the smaller of the old cx and the size of the new row.
C11_MoveWraps ==
    pc = "keypress"
    => /\ (E.preview_mode # 2 /\ E.cx = 0 /\ E.cy > 0)
          => /\ AfterKey(ARROW_LEFT).cy = E.cy - 1
             /\ AfterKey(ARROW_LEFT).cx = RowSizeAt(E, E.cy - 1)
       /\ (E.preview_mode # 2 /\ E.cy < E.numrows - 1 /\ E.cx = RowSizeAt(E, E.cy))
          => /\ AfterKey(ARROW_RIGHT).cy = E.cy + 1
             /\ AfterKey(ARROW_RIGHT).cx = 0
       /\ AfterKey(ARROW_UP).cy = (IF E.cy > 0 THEN E.cy - 1 ELSE E.cy)
       /\ AfterKey(ARROW_DOWN).cy = (IF E.cy < E.numrows - 1 THEN E.cy + 1 ELSE E.cy)
       /\ \A c \in {ARROW_UP, ARROW_DOWN} :
              AfterKey(c).cx = Min(E.cx, RowSizeAt(E, AfterKey(c).cy))

\* Left has just wrapped to the end of a row that is not the last
C11_Witness ==
    /\ pc = "refresh" /\ hist.stage = 4 /\ hist.key = ARROW_LEFT
    /\ E.cy < E.numrows - 1
    /\ E.cx = RowSizeAt(E, E.cy) /\ E.cx > 0

\* e has the rows, numrows, cursor and dirty flag of the current editor
SameDocument(e) ==
    /\ e.rows = E.rows /\ e.numrows = E.numrows
    /\ e.cx = E.cx /\ e.cy = E.cy
    /\ e.dirty = E.dirty

\* C12 (SpecKeys): whenever a key is about to be read, Backspace and Left at
\* (0,0), Up on row 0, Down on the last row and Right at the end of the last
\* row leave rows, numrows, cursor and dirty as they are, and the call returns
\* without leaving the program.
C12_OutOfRangeNoOp ==
    pc = "keypress"
    => /\ (E.cx = 0 /\ E.cy = 0)
          => SameDocument(AfterKey(BACKSPACE)) /\ SameDocument(AfterKey(ARROW_LEFT))
       /\ (E.cy = 0) => SameDocument(AfterKey(ARROW_UP))
       /\ (E.cy >= E.numrows - 1) => SameDocument(AfterKey(ARROW_DOWN))
       /\ (E.cy >= E.numrows - 1 /\ E.cx = RowSizeAt(E, E.cy))
          => SameDocument(AfterKey(ARROW_RIGHT))
       /\ \A c \in {BACKSPACE, ARROW_LEFT, ARROW_UP, ARROW_DOWN, ARROW_RIGHT} :
              ~editorProcessKeypress(E, quit_times, c, TRUE).exited

\* Backspace has just been given a clean document with the cursor at (0,0)
C12_Witness ==
    /\ pc = "refresh" /\ hist.stage = 4 /\ hist.key = BACKSPACE
    /\ E.preview_mode # 2
    /\ E.numrows > 0 /\ E.cx = 0 /\ E.cy = 0 /\ E.dirty = 0

\* the editor editorProcessKeypress leaves when Ctrl-S is read and the file
\* cannot be opened or fully written
AfterFailedSave ==
    editorProcessKeypress(E, quit_times, CTRL_S, FALSE).E

\* C13 (SpecFile): whenever a key is about to be read in an editing mode, a
\* Ctrl-S whose write fails leaves rows, numrows, cursor, dirty and filename
\* (the NULL of an editor without file name included) as they are and changes
\* only the status message, which reports the error.
C13_FailedSaveChangesNothing ==
    (pc = "keypress" /\ E.preview_mode # 2)
    => /\ SameDocument(AfterFailedSave)
       /\ AfterFailedSave.filename = E.filename
       /\ AfterFailedSave.statusmsg = "Can't save! I/O error"
       /\ AfterFailedSave = [E EXCEPT !.statusmsg = "Can't save! I/O error",
                                    !.statusmsg_time = now]

\* the physical lines of a file: the bytes between line feeds, a last line
\* without line feed included
RECURSIVE PhysicalLines(_, _)
PhysicalLines(file, line) ==
    IF file = <<>> THEN (IF line = <<>> THEN <<>> ELSE <<line>>)
    ELSE IF Head(file) = LF THEN <<line>> \o PhysicalLines(Tail(file), <<>>)
    ELSE PhysicalLines(Tail(file), Append(line, Head(file)))

\* some line of the file was loaded with fewer bytes than it has
LostBytes(file) ==
    \E j \in 1 .. Len(PhysicalLines(file, <<>>)) :
        j > E.numrows \/ E.rows[j].size < Len(PhysicalLines(file, <<>>)[j])

\* the message line of the frame about to be drawn in a console of 4 x 2
FrameMessage ==
    editorDrawMessageBar(editorRefreshScreen(E, <<4, 2>>))

\* what the message line shows of the message msg
OnMessageBar(e, msg) ==
    SubSeq(msg, 1, Min(Len(msg), e.screencols))

\* C14 (SpecLoad): when the first frame is about to be drawn, every physical
\* line of the file has its row (loading went on to the end of the file), and
\* the message line of that frame is the truncation warning exactly when some
\* line of the file lost bytes.
C14_TruncationWarningShown ==
    (pc = "refresh" /\ hist.stage = 5)
    => /\ E.numrows = Len(PhysicalLines(hist.file, <<>>))
       /\ (FrameMessage = OnMessageBar(E, "Warning: Line truncated (too long)"))
          <=> LostBytes(hist.file)

\* C15 (SpecKeys): whenever a key is about to be read in preview-only mode,
\* whatever the key (and whether or not a write could succeed), the call
\* leaves rows, numrows and dirty as they are; at most the cursor, the
\* preview mode and the status message change, or the program exits.
C15_PreviewOnlyReadOnly ==
    (pc = "keypress" /\ E.preview_mode = 2)
    => \A c \in Keys, io \in BOOLEAN :
           LET r == editorProcessKeypress(E, quit_times, c, io)
           IN  /\ r.E.rows = E.rows /\ r.E.numrows = E.numrows
               /\ Contents(r.E) = Contents(E)
               /\ r.E.dirty = E.dirty
               /\ r.E = [E EXCEPT !.cx = r.E.cx, !.cy = r.E.cy,
                                  !.preview_mode = r.E.preview_mode,
                                  !.statusmsg = r.E.statusmsg,
                                  !.statusmsg_time = r.E.statusmsg_time]
               /\ (r.E.cx # E.cx \/ r.E.cy # E.cy)
                  => c \in {ARROW_UP, ARROW_DOWN, PAGE_UP, PAGE_DOWN}
               /\ r.E.preview_mode # E.preview_mode => c = CTRL_P
               /\ r.E.statusmsg # E.statusmsg => c \in {CTRL_P, CTRL_Q}
               /\ r.exited => c = CTRL_Q

\* a letter has just been typed in preview-only mode, on a document with rows
C15_Witness ==
    /\ pc = "refresh" /\ hist.stage = 4 /\ hist.key = LETTER
    /\ E.preview_mode = 2 /\ E.numrows > 0

\* the queries of a find
Queries ==
    SeqsUpTo({LETTER}, 2) \ {<<>>}

\* the offsets in chars at which an occurrence of q starts
MatchOffsets(q, chars) ==
    {off \in 0 .. Len(chars) - Len(q) : SubSeq(chars, off + 1, off + Len(q)) = q}

\* the rows (0-based) that contain q
MatchRows(e, q) ==
    {j \in 0 .. e.numrows - 1 : MatchOffsets(q, e.rows[j + 1].chars) # {}}

\* the first row containing q, scanning forward from row start and wrapping
\* past the last row to row 0
FirstMatchRow(e, q, start) ==
    LET steps == {k \in 0 .. e.numrows - 1 : ((start + k) % e.numrows) \in MatchRows(e, q)}
        k == CHOOSE k \in steps : \A k2 \in steps : k <= k2
    IN  (start + k) % e.numrows

\* C16 (SpecKeys): whenever a key is about to be read in an editing mode, a
\* find (Ctrl-F) for a query that occurs in some row puts the cursor on the
\* first row containing it, scanning forward with wraparound from the
\* cursor's row, with cx the offset at which the match starts; with no
\* matching row the cursor stays where it is.
C16_FindMovesToMatch ==
    (pc = "keypress" /\ E.preview_mode # 2)
    => \A q \in Queries :
           IF MatchRows(E, q) # {}
           THEN LET row == FirstMatchRow(E, q, E.cy)
                    offs == MatchOffsets(q, E.rows[row + 1].chars)
                IN  /\ AfterKey(CTRL_F).cy = row
                    /\ AfterKey(CTRL_F).cx \in offs
                    /\ \A off \in offs : AfterKey(CTRL_F).cx <= off
           ELSE /\ AfterKey(CTRL_F).cy = E.cy
                /\ AfterKey(CTRL_F).cx = E.cx

\* C17 (SpecMsg): the message line of every frame about to be drawn shows
\* the status message if one is set and younger than StatusMsgSeconds, and
\* the static help string otherwise (none set, or the last one expired); it
\* is never blank.
C17_MessageOrHelp ==
    pc = "refresh"
    => /\ FrameMessage # ""
       /\ FrameMessage =
              IF E.statusmsg # "" /\ now - E.statusmsg_time < StatusMsgSeconds
              THEN OnMessageBar(E, E.statusmsg)
              ELSE WELCOME_MESSAGE

\* C18 as the specification states it: every at is accepted, clamped into
\* [0, numrows]; numrows grows by one, the new row holds the bytes, the other
\* rows keep their order and dirty is set.
C18_InsertRowClamps ==
    hist.stage = 7
    => LET before == hist.before
           at == IF hist.at < 0 THEN 0
                 ELSE IF hist.at > before.numrows THEN before.numrows ELSE hist.at
       IN  /\ E.numrows = before.numrows + 1
           /\ Contents(E) = InsertAt(Contents(before), at, hist.s)
           /\ E.dirty = 1

\* What editorInsertRow does (SpecRows): for 0 <= at <= numrows editorInsertRow(at, bytes)
\* grows numrows by one, puts a row holding bytes (rendered) at index at,
\* keeps the other rows in order and sets dirty; for any other at it changes
\* nothing at all.
C18_InsertRowInRange ==
    hist.stage = 7
    => LET before == hist.before
       IN  IF 0 <= hist.at /\ hist.at <= before.numrows
           THEN /\ E.numrows = before.numrows + 1
                /\ E.rows = InsertAt(before.rows, hist.at, E.rows[hist.at + 1])
                /\ E.rows[hist.at + 1].chars = hist.s
                /\ E.rows[hist.at + 1].size = Len(hist.s)
                /\ E.rows[hist.at + 1].render = TabExpansion(hist.s)
                /\ E.dirty = 1
                /\ E = [before EXCEPT !.rows = E.rows, !.numrows = E.numrows, !.dirty = 1]
           ELSE E = before

\* a row with a tab has just been inserted between two rows
C18_Witness ==
    /\ hist.stage = 7 /\ hist.at = 1 /\ hist.s = <<TAB>>
    /\ hist.before.numrows = 2 /\ E.numrows = 3

RECURSIVE SkipEscape(_)
\* the bytes after an escape sequence that starts s: all after its final 'm'
SkipEscape(s) ==
    IF s = <<>> THEN <<>>
    ELSE IF s[1] = 109 THEN SubSeq(s, 2, Len(s))
    ELSE SkipEscape(SubSeq(s, 2, Len(s)))

RECURSIVE StripEscapes(_)
\* what a terminal prints of s: s without its ESC [ ... m sequences
StripEscapes(s) ==
    IF s = <<>> THEN <<>>
    ELSE IF s[1] = ESCAPE THEN StripEscapes(SkipEscape(s))
    ELSE <<s[1]>> \o StripEscapes(SubSeq(s, 2, Len(s)))

\* the text of row 0, the one the preview frame of stage 8 shows
PreviewedText ==
    SubSeq(E.rows[1].chars, 1, E.rows[1].size)

\* C19 (SpecMd): for every row the preview draws, the rendered output without
\* its style escape sequences is the row's text with tabs expanded.
C19_RenderKeepsText ==
    hist.stage = 8
    => StripEscapes(hist.frame.rendered) = TabExpansion(PreviewedText)

\* Rows without '*' and '`' that are no header, list item, rule or fence and
\* fit the buffer are rendered as their tab expansion.
C19_PlainRowsKeepText ==
    /\ hist.stage = 8
    /\ isHeaderLine(PreviewedText) = 0
    /\ ~isListItem(PreviewedText)
    /\ ~isHorizontalRule(PreviewedText)
    /\ ~isCodeBlock(PreviewedText)
    /\ \A i \in 1 .. Len(PreviewedText) : PreviewedText[i] \notin {STAR, BACKQUOTE}
    /\ Len(TabExpansion(PreviewedText)) < RenderedSize - 2
    => hist.frame.rendered = TabExpansion(PreviewedText)

\* a plain row with a tab has been drawn in the preview
C19_Witness ==
    /\ hist.stage = 8
    /\ PreviewedText = <<LETTER, TAB, LETTER>>
    /\ hist.frame.rendered = <<LETTER, SPACE, SPACE, SPACE, LETTER>>

RECURSIVE OpenStyles(_, _, _)
\* the inline styles left open by the markers of chars from chars[i] on:
\* open = <<bold, italic, code>>, each toggled by its marker
OpenStyles(chars, i, open) ==
    IF i >= Len(chars) THEN open
    ELSE IF CharAt(chars, i) = STAR /\ CharAt(chars, i + 1) = STAR
    THEN OpenStyles(chars, i + 2, [open EXCEPT ![1] = ~open[1]])
    ELSE IF CharAt(chars, i) = STAR
    THEN OpenStyles(chars, i + 1, [open EXCEPT ![2] = ~open[2]])
    ELSE IF CharAt(chars, i) = BACKQUOTE
    THEN OpenStyles(chars, i + 1, [open EXCEPT ![3] = ~open[3]])
    ELSE OpenStyles(chars, i + 1, open)

\* the index where the inline text of a row starts: after the bullet and its
\* spaces in a list item, 0 in normal text
InlineStart(chars) ==
    IF isListItem(chars)
    THEN SkipWhile(chars, SkipWhile(chars, 0, {SPACE, TAB}) + 1, {SPACE, TAB})
    ELSE 0

\* the row is a list item or normal text
IsInlineRow(chars) ==
    /\ isHeaderLine(chars) = 0
    /\ \/ isListItem(chars)
       \/ ~isHorizontalRule(chars) /\ ~isCodeBlock(chars)

HasUnmatchedMarker(chars) ==
    /\ IsInlineRow(chars)
    /\ \E k \in 1 .. 3 : OpenStyles(chars, InlineStart(chars), <<FALSE, FALSE, FALSE>>)[k]

EndsWithReset(out) ==
    /\ Len(out) >= Len(SGR_RESET)
    /\ SubSeq(out, Len(out) - Len(SGR_RESET) + 1, Len(out)) = SGR_RESET

\* C20 (SpecMd): every list item or normal row with an unmatched bold, italic
\* or code marker is rendered to an output that ends with the style reset.
C20_UnmatchedMarkerReset ==
    hist.stage = 8 /\ HasUnmatchedMarker(PreviewedText)
    => EndsWithReset(hist.frame.rendered)

\* Normal rows with an unmatched marker end with the reset when the output
\* leaves room for it in the buffer.
C20_NormalRowsReset ==
    /\ hist.stage = 8
    /\ HasUnmatchedMarker(PreviewedText)
    /\ ~isListItem(PreviewedText)
    /\ Len(hist.frame.rendered) + Len(SGR_RESET) + 1 < RenderedSize
    => EndsWithReset(hist.frame.rendered)

\* the row "*a" has been drawn: italic opened, the reset appended
C20_Witness ==
    /\ hist.stage = 8
    /\ PreviewedText = <<STAR, LETTER>>
    /\ hist.frame.rendered = SGR_ITALIC \o <<LETTER>> \o SGR_RESET

\* the escape sequence opens out
StartsWith(out, esc) ==
    /\ Len(out) >= Len(esc)
    /\ SubSeq(out, 1, Len(esc)) = esc

\* the number of '#' that start the line
LeadingHashes(line) ==
    SkipWhile(line, 0, {HASH})

\* a header: a run of '#' followed by a space or tab
IsHeader(line) ==
    /\ LeadingHashes(line) > 0
    /\ CharAt(line, LeadingHashes(line)) \in {SPACE, TAB}

\* C21 (SpecHdr): isHeaderLine is 0 for a line that is no header and else the
\* number of leading '#' capped at 6, a level in 1..6; and every header line
\* is rendered with one of the six header styles.
C21_HeaderLevels ==
    hist.stage = 8
    => IF ~IsHeader(PreviewedText)
       THEN isHeaderLine(PreviewedText) = 0
       ELSE /\ isHeaderLine(PreviewedText) \in 1 .. 6
            /\ isHeaderLine(PreviewedText) = Min(LeadingHashes(PreviewedText), 6)
            /\ \E fontSize \in 1 .. 6 :
                   StartsWith(hist.frame.rendered, SGR_HEADER(fontSize))

\* Headers of up to six '#': isHeaderLine is the number of '#', and the row
\* is rendered in the style 7 - level; a line that is no header gives 0.
C21_LevelsUpToSix ==
    hist.stage = 8
    => IF ~IsHeader(PreviewedText)
       THEN isHeaderLine(PreviewedText) = 0
       ELSE LeadingHashes(PreviewedText) <= 6
            => /\ isHeaderLine(PreviewedText) = LeadingHashes(PreviewedText)
               /\ StartsWith(hist.frame.rendered,
                             SGR_HEADER(7 - LeadingHashes(PreviewedText)))

\* the header "## a" has been drawn in the style of level 2
C21_Witness ==
    /\ hist.stage = 8
    /\ PreviewedText = <<HASH, HASH, SPACE, LETTER>>
    /\ hist.frame.rendered = SGR_HEADER(5) \o <<HASH, HASH, SPACE, LETTER>> \o SGR_RESET

\* the line holds nothing but three or more of one of '-', '*', '_' and
\* spaces or tabs
IsRuleLine(line) ==
    \E c \in {MINUS, STAR, UNDERSCORE} :
        /\ \A i \in 1 .. Len(line) : line[i] \in {c, SPACE, TAB}
        /\ Cardinality({i \in 1 .. Len(line) : line[i] = c}) >= 3

\* the width - 1 dashes of a horizontal rule, in the preview of E
RuleOutput ==
    [i \in 1 .. (IF E.preview_mode = 2 THEN E.screencols - 1
                 ELSE E.screencols - E.screencols \div 2 - 2) |-> MINUS]

\* C22 (SpecRule): a line is rendered as a horizontal rule exactly if it
\* consists only of three or more of one of '-', '*', '_', with or without
\* spaces and tabs between them.
C22_RuleLines ==
    hist.stage = 8
    => (IsRuleLine(PreviewedText)
        <=> Branch(PreviewedText) = "rule" /\ hist.frame.rendered = RuleOutput)

\* A line is rendered as a horizontal rule exactly if it is such a line and
\* is no list item.
C22_RuleUnlessListItem ==
    hist.stage = 8
    => (IsRuleLine(PreviewedText) /\ ~isListItem(PreviewedText)
        <=> Branch(PreviewedText) = "rule" /\ hist.frame.rendered = RuleOutput)

\* "___" has been drawn as a rule across the preview-only window
C22_Witness ==
    /\ hist.stage = 8
    /\ E.preview_mode = 2
    /\ PreviewedText = <<UNDERSCORE, UNDERSCORE, UNDERSCORE>>
    /\ hist.frame.rendered = <<MINUS, MINUS, MINUS, MINUS, MINUS>>

RECURSIVE RunIndex(_, _)
\* for every byte a terminal prints of out, the number of the style run it is
\* in: a run ends where an escape sequence stands; n is the run out starts in
RunIndex(out, n) ==
    IF out = <<>> THEN <<>>
    ELSE IF out[1] = ESCAPE THEN RunIndex(SkipEscape(out), n + 1)
    ELSE <<n>> \o RunIndex(SubSeq(out, 2, Len(out)), n)

\* a header of one '#', a space and a title that starts with a letter
IsTitleLine(line) ==
    /\ Len(line) >= 3
    /\ line[1] = HASH
    /\ line[2] = SPACE
    /\ line[3] = LETTER

\* C23 (SpecHdr): a line "# Title" is a header of level 1, and its title is
\* rendered in another style run than its '#' marker.
C23_TitleStyledApart ==
    hist.stage = 8 /\ IsTitleLine(PreviewedText)
    => /\ isHeaderLine(PreviewedText) = 1
       /\ StripEscapes(hist.frame.rendered) = PreviewedText
       /\ RunIndex(hist.frame.rendered, 0)[1] # RunIndex(hist.frame.rendered, 0)[3]

\* A line "# Title" is a header of level 1 and is rendered whole, marker and
\* title, in the one style run of level 1.
C23_TitleInHeaderStyle ==
    hist.stage = 8 /\ IsTitleLine(PreviewedText)
    => /\ isHeaderLine(PreviewedText) = 1
       /\ hist.frame.rendered = SGR_HEADER(6) \o PreviewedText \o SGR_RESET

\* "# aa" has been drawn
C23_Witness ==
    /\ hist.stage = 8
    /\ PreviewedText = <<HASH, SPACE, LETTER, LETTER>>
    /\ hist.frame.rendered = SGR_HEADER(6) \o <<HASH, SPACE, LETTER, LETTER>> \o SGR_RESET

\* the inline loop's part of the output of a list item or normal row: it
\* starts after the first `from` bytes of the buffer, and marks holds the open
\* states for each of its bytes
InlineTrace(chars, buffer_size) ==
    IF isListItem(chars)
    THEN LET start == ListItemStart(chars, buffer_size, "stores")
         IN  [from |-> Len(start.st.buf),
              marks |-> InlineFrom(chars, start.i, buffer_size, start.st).marks]
    ELSE [from |-> 0,
          marks |-> InlineFrom(chars, 0, buffer_size, EmptyBuffer("stores")).marks]

\* the styles <<bold, italic, code>> active on a terminal after the escape
\* sequence esc: ESC[0m switches all off, the others switch one on
AfterEscape(esc, active) ==
    IF esc = SGR_RESET THEN <<FALSE, FALSE, FALSE>>
    ELSE IF esc = SGR_BOLD THEN [active EXCEPT ![1] = TRUE]
    ELSE IF esc = SGR_ITALIC THEN [active EXCEPT ![2] = TRUE]
    ELSE IF esc = SGR_CYAN THEN [active EXCEPT ![3] = TRUE]
    ELSE active

RECURSIVE Terminal(_, _)
\* for every byte of out: whether the terminal prints it, and the styles
\* active on the terminal at that byte
Terminal(out, active) ==
    IF out = <<>> THEN <<>>
    ELSE IF out[1] = ESCAPE
    THEN LET rest == SkipEscape(out)
             esc == SubSeq(out, 1, Len(out) - Len(rest))
             now_active == AfterEscape(esc, active)
         IN  [k \in 1 .. Len(esc) |-> [printed |-> FALSE, active |-> now_active]]
             \o Terminal(rest, now_active)
    ELSE <<[printed |-> TRUE, active |-> active]>>
         \o Terminal(SubSeq(out, 2, Len(out)), active)

\* C24 (SpecMd): at every character the inline loop emits, in a list item or
\* a normal row, the styles active on the terminal are exactly the states
\* that are open.
C24_StylesIndependent ==
    hist.stage = 8 /\ IsInlineRow(PreviewedText)
    => LET trace == InlineTrace(PreviewedText, RenderedSize)
           term == Terminal(hist.frame.rendered, <<FALSE, FALSE, FALSE>>)
       IN  \A k \in 1 .. Len(trace.marks) :
               term[trace.from + k].printed
               => term[trace.from + k].active = trace.marks[k]

\* At every character the inline loop emits, every style active on the
\* terminal is a state that is open.
C24_ActiveStylesAreOpen ==
    hist.stage = 8 /\ IsInlineRow(PreviewedText)
    => LET trace == InlineTrace(PreviewedText, RenderedSize)
           term == Terminal(hist.frame.rendered, <<FALSE, FALSE, FALSE>>)
       IN  \A k \in 1 .. Len(trace.marks) :
               term[trace.from + k].printed
               => \A j \in 1 .. 3 : term[trace.from + k].active[j] => trace.marks[k][j]

\* "*`a" has been drawn: the letter is emitted with italic and code open
C24_Witness ==
    /\ hist.stage = 8
    /\ PreviewedText = <<STAR, BACKQUOTE, LETTER>>
    /\ hist.frame.rendered = SGR_ITALIC \o SGR_CYAN \o <<LETTER>> \o SGR_RESET
    /\ InlineTrace(PreviewedText, RenderedSize).marks[Len(SGR_ITALIC \o SGR_CYAN) + 1]
           = <<FALSE, TRUE, TRUE>>

\* C25 (SpecBuf): for every row and every buffer_size >= 1, renderMarkdown
\* stores bytes only at the indices 0 .. buffer_size - 1 of buffer and leaves
\* a NUL in it that ends the rendered string.
C25_WritesInsideBuffer ==
    hist.stage = 9
    => /\ ~hist.frame.oob
       /\ hist.frame.nul \in 0 .. hist.buffer_size - 1
       /\ Len(hist.frame.rendered) <= hist.frame.nul

\* The rule, fence and normal branches store only inside the buffer, for
\* every buffer_size >= 1, and so does the header branch from buffer_size 6
\* on for rows that fit; the NUL is always inside.
C25_SafeBranches ==
    hist.stage = 9
    => /\ Branch(PreviewedText) \in {"rule", "fence", "normal"}
          => ~hist.frame.oob /\ ~hist.frame.ub
       /\ Branch(PreviewedText) = "header"
              /\ hist.buffer_size >= Len(PreviewedText) + Len(SGR_HEADER(1))
          => ~hist.frame.oob /\ ~hist.frame.ub
       /\ hist.frame.nul \in 0 .. hist.buffer_size - 1
       /\ Len(hist.frame.rendered) <= hist.frame.nul

\* a fenced row longer than the buffer has been cut to fit it
C25_Witness ==
    /\ hist.stage = 9
    /\ hist.buffer_size = 7
    /\ PreviewedText = <<BACKQUOTE, BACKQUOTE, BACKQUOTE, LETTER>>
    /\ hist.frame.rendered = SGR_CYAN \o <<BACKQUOTE>>
    /\ ~hist.frame.oob

\* every row has room for its bytes and the terminator
RowsFit ==
    \A j \in 1 .. E.numrows : E.rows[j].size + 1 <= E.rows[j].capacity

\* The rows of E are found among the rows of E', in their order, each with a
\* capacity at least as large: all rows if none was added or removed, all rows
\* around the inserted one, or all rows but the deleted one.
CapacityGrows ==
    \/ /\ E'.numrows = E.numrows
       /\ \A j \in 1 .. E.numrows : E'.rows[j].capacity >= E.rows[j].capacity
    \/ /\ E'.numrows = E.numrows + 1
       /\ \E at \in 0 .. E.numrows :
              /\ \A j \in 1 .. at : E'.rows[j].capacity >= E.rows[j].capacity
              /\ \A j \in at + 1 .. E.numrows : E'.rows[j + 1].capacity >= E.rows[j].capacity
    \/ /\ E'.numrows = E.numrows - 1
       /\ \E at \in 1 .. E.numrows :
              /\ \A j \in 1 .. at - 1 : E'.rows[j].capacity >= E.rows[j].capacity
              /\ \A j \in at + 1 .. E.numrows : E'.rows[j - 1].capacity >= E.rows[j].capacity

\* C26 (Spec): in every reachable state every row satisfies size + 1 <=
\* capacity, and no step of the editor (insertion, join, split, deletion)
\* makes the capacity of a row smaller.
C26_RowsFitCapacity ==
    [][RowsFit /\ RowsFit' /\ CapacityGrows]_vars

\* a join has grown the first row to the capacity 4 for 2 bytes, after a
\* split and edits
C26_Witness ==
    /\ hist.stage = 2
    /\ E.numrows >= 1
    /\ E.rows[1].size = 2
    /\ E.rows[1].capacity = 4

\* seq without its element of (0-based) index at
\* the rows of the current document after a forward delete at the cursor:
\* the byte at cx removed from row cy, or row cy + 1 joined onto row cy
ForwardDeleted ==
    LET doc == Contents(E)
        line == doc[E.cy + 1]
    IN  IF E.cx < Len(line)
        THEN SubSeq(doc, 1, E.cy)
                 \o <<SubSeq(line, 1, E.cx) \o SubSeq(line, E.cx + 2, Len(line))>>
                 \o SubSeq(doc, E.cy + 2, Len(doc))
        ELSE SubSeq(doc, 1, E.cy) \o <<line \o doc[E.cy + 2]>>
                 \o SubSeq(doc, E.cy + 3, Len(doc))

\* C27 (SpecKeys): whenever a key is about to be read with the cursor on a
\* row, Delete removes the byte at the cursor, or joins the next row onto
\* the current one at the end of a row that is not the last, and leaves the
\* cursor where it is; at the end of the last row it changes neither the
\* rows nor the cursor.
C27_DeleteForward ==
    pc = "keypress" /\ E.preview_mode # 2
       /\ E.cy >= 0 /\ E.cy < E.numrows
       /\ E.cx >= 0 /\ E.cx <= E.rows[E.cy + 1].size
    => /\ AfterKey(DEL_KEY).cx = E.cx
       /\ AfterKey(DEL_KEY).cy = E.cy
       /\ Contents(AfterKey(DEL_KEY))
              = IF E.cy = E.numrows - 1 /\ E.cx = E.rows[E.cy + 1].size
                THEN Contents(E)
                ELSE ForwardDeleted

\* The same, except at the end of the last row.
C27_DeleteBeforeEnd ==
    pc = "keypress" /\ E.preview_mode # 2
       /\ E.cy >= 0 /\ E.cy < E.numrows
       /\ E.cx >= 0 /\ E.cx <= E.rows[E.cy + 1].size
       /\ ~(E.cy = E.numrows - 1 /\ E.cx = E.rows[E.cy + 1].size)
    => /\ AfterKey(DEL_KEY).cx = E.cx
       /\ AfterKey(DEL_KEY).cy = E.cy
       /\ Contents(AfterKey(DEL_KEY)) = ForwardDeleted

\* Delete has just removed the first of two letters, the cursor before it
C27_Witness ==
    /\ pc = "refresh" /\ hist.stage = 4 /\ hist.key = DEL_KEY
    /\ E.preview_mode # 2
    /\ Contents(E) = <<<<LETTER>>>>
    /\ E.cx = 0 /\ E.cy = 0 /\ E.dirty = 1

\* ------------------------------------------------------------------------
\* Quitting: the history counts the Ctrl-Q presses since the last other key
\* ------------------------------------------------------------------------
\* the keys of a run that edits, saves, changes the preview mode and quits
QuitRunKeys ==
    {LETTER, ESCAPE, BACKSPACE, ARROW_UP, CTRL_P, CTRL_S, CTRL_Q}

\* editorProcessKeypress for the key c; stage 10: hist.run is the number of
\* Ctrl-Q key events read since the last key event that was not Ctrl-Q
\* (counted up to 3)
QuitStep(c) ==
    /\ pc = "keypress"
    /\ LET r == editorProcessKeypress(E, quit_times, c, TRUE)
           run == IF hist.stage = 10 THEN hist.run ELSE 0
       IN  /\ \/ Len(editorRowsToString(r.E)) <= MaxStepDoc
              \/ Len(editorRowsToString(r.E)) <= Len(editorRowsToString(E))
           /\ E' = r.E
           /\ quit_times' = r.quit_times
           /\ pc' = IF r.exited THEN "exited" ELSE "refresh"
           /\ hist' = [stage |-> 10,
                       run |-> IF c # CTRL_Q THEN 0
                               ELSE IF run < 3 THEN run + 1 ELSE 3]
    /\ UNCHANGED <<mutated, scen, now>>

NextQuit ==
    \/ RefreshRoomy
    \/ \E c \in QuitRunKeys : QuitStep(c)

\* main has loaded a file of one line
SpecQuit == InitWith({<<6, 4>>}, {<<LETTER, LF>>}) /\ [][NextQuit]_vars

\* C28 (SpecQuit): with unsaved changes the editor exits only when the last
\* three key events were all Ctrl-Q, and in every preview mode every key
\* other than Ctrl-Q, ignored keys included, puts the countdown back to its
\* initial value 2.
C28_QuitThreeInARow ==
    /\ pc = "exited" /\ E.dirty # 0 => hist.stage = 10 /\ hist.run = 3
    /\ pc = "keypress"
       => \A c \in QuitRunKeys \ {CTRL_Q} :
              editorProcessKeypress(E, quit_times, c, TRUE).quit_times = 2

\* With unsaved changes the editor exits only after the countdown has run
\* down to 0 and Ctrl-Q is pressed once more, and every key other than
\* Ctrl-Q that the current mode handles puts the countdown back to 2.
C28_HandledKeysReset ==
    /\ pc = "exited" /\ E.dirty # 0
       => quit_times = 0 /\ hist.stage = 10 /\ hist.run >= 1
    /\ pc = "keypress"
       => \A c \in IF E.preview_mode = 2 THEN {ARROW_UP, CTRL_P}
                   ELSE QuitRunKeys \ {CTRL_Q} :
              editorProcessKeypress(E, quit_times, c, TRUE).quit_times = 2

\* the editor has exited from preview-only mode with unsaved changes on the
\* third Ctrl-Q in a row
C28_Witness ==
    /\ pc = "exited" /\ E.dirty # 0
    /\ E.preview_mode = 2
    /\ hist.stage = 10 /\ hist.run = 3

\* the number of bytes of seq that equal b
CountByte(seq, b) ==
    Cardinality({i \in 1 .. Len(seq) : seq[i] = b})

\* C29 (SpecBytes): after any sequence of key events and loads no row's chars
\* holds a line-feed or carriage-return byte, and the number of rows equals
\* the number of lines of the document editorRowsToString serialises.
C29_RowsAreLines ==
    /\ (\A j \in 1 .. E.numrows : CountByte(Contents(E)[j], LF) = 0)
    /\ (\A j \in 1 .. E.numrows : CountByte(Contents(E)[j], CR) = 0)
    /\ E.numrows = CountByte(editorRowsToString(E), LF)

\* No row's chars holds a carriage return, and while no row holds a line feed
\* the number of rows equals the number of serialised lines.
C29_LinesUnlessLineFeedTyped ==
    /\ (\A j \in 1 .. E.numrows : CountByte(Contents(E)[j], CR) = 0)
    /\ (\A j \in 1 .. E.numrows : CountByte(Contents(E)[j], LF) = 0)
       => E.numrows = CountByte(editorRowsToString(E), LF)

\* keys have changed a loaded document into two rows, serialised as two lines
C29_Witness ==
    /\ pc = "refresh" /\ mutated
    /\ E.numrows = 2
    /\ \A j \in 1 .. E.numrows : CountByte(Contents(E)[j], LF) = 0
    /\ \A j \in 1 .. E.numrows : CountByte(Contents(E)[j], CR) = 0
    /\ Contents(E)[1] = <<LETTER>>
    /\ CountByte(editorRowsToString(E), LF) = 2

====
